---- MODULE Spec2Model ----
(***************************************************************************)
(* Model of the cherryclub API backend: the authority (role) resolution    *)
(* service with the three handlers that change user_authorities, the       *)
(* notification fan-out of the content-creation routes, the notification   *)
(* read-state routes, and the connection discipline of the join / login    *)
(* handlers.                                                               *)
(*                                                                         *)
(* Every handler is one action.  The outcome of each database statement    *)
(* and of each push send is an input of the action (a single injected      *)
(* fault per request), so that the try / catch structure of the code is    *)
(* part of the model.                                                      *)
(***************************************************************************)
EXTENDS Integers, Sequences, FiniteSets, TLC

VARIABLES
    user_authorities,   \* rows of table user_authorities
    authOut,            \* response of the last authority handler
    isFirebaseInitialized, \* module flag of utils/firebase
    fcm_token,          \* users.fcm_token, per user
    notifications,      \* rows of table notifications
    contents,           \* committed notices / testimonies / events
    comment_likes,      \* rows of table testimony_comment_likes
    req,                \* the last content / notification request and its fan-out
    deferred,           \* setImmediate callbacks not yet run
    delivery,           \* the last delivery batch that ran
    heldConnections,    \* connections taken from the pool and not released
    applications,       \* rows of table Applications (phone column)
    refresh_token,      \* users.refresh_token, per user
    joinOut,            \* response of the last join / login handler
    view_count,         \* testimonies.view_count, per testimony id
    academic_years,     \* rows of table academic_years (year_code column)
    guardOut,           \* response of the last request that carried a bearer
    tokenValidation,    \* the last call of FCMService.validateToken and its result
    procs,              \* requests in flight between two of their statements
    user_team_roles,    \* rows of table user_team_roles of one team
    notice_likes,       \* rows of table notice_likes of one notice
    like_count,         \* notices.like_count of that notice
    email_verification_codes \* rows of table email_verification_codes

authVars  == <<user_authorities, authOut>>
notifVars == <<isFirebaseInitialized, fcm_token, notifications, contents,
               comment_likes, req, deferred, delivery>>
poolVars  == <<heldConnections, applications, refresh_token, joinOut>>
guardVars == <<view_count, academic_years, guardOut, tokenValidation>>
raceVars  == <<procs, user_team_roles, notice_likes, like_count,
               email_verification_codes>>
vars      == <<user_authorities, authOut, isFirebaseInitialized, fcm_token,
               notifications, contents, comment_likes, req, deferred, delivery,
               heldConnections, applications, refresh_token, joinOut,
               view_count, academic_years, guardOut, tokenValidation,
               procs, user_team_roles, notice_likes, like_count,
               email_verification_codes>>

---------------------------------------------------------------------------
(* Bounds of the model *)

NumUsers == 2          \* rows of table users: ids 1..NumUsers
MaxUaRows == 2         \* rows the user_authorities table may grow to
MaxUpdates == 1        \* length of the updates array of PATCH /api/users

Users == 1..NumUsers
\* ids a request can name: the existing users and one id that matches no row
RequestUserIds == 1..(NumUsers + 1)

---------------------------------------------------------------------------
(* Reference data: table authorities (static, never written by the code) *)

Authorities ==
    { [id |-> 1, category_id |-> 2, name |-> "ADMIN",        level |-> 0, is_active |-> TRUE],
      [id |-> 2, category_id |-> 2, name |-> "GROUP_LEADER", level |-> 5, is_active |-> TRUE],
      [id |-> 3, category_id |-> 1, name |-> "LEADER",       level |-> 6, is_active |-> TRUE] }

AuthorityIds == { a.id : a \in Authorities }

AuthorityById(aid) == CHOOSE a \in Authorities : a.id = aid

\* authority_categories row MINISTRY
MinistryCategoryId == 1

---------------------------------------------------------------------------
(* AuthorityService *)

\* the value `null` of UserAuthoritiesResponse | null
NullResponse == [found |-> FALSE, userId |-> 0, authorities |-> <<>>,
                 highestAuthorityLevel |-> 0]

\* Math.min over the levels of a non-empty sequence of authorities
MinLevel(auths) ==
    CHOOSE l \in { auths[i].level : i \in 1..Len(auths) } :
        \A j \in 1..Len(auths) : l <= auths[j].level

\* rows of the LEFT JOIN for one user that carry an authority:
\* active assignments joined to their authorities row
MutJoinedRows(rows, userId) ==
    { [ua_id |-> ua.id, authority |-> AuthorityById(ua.authority_id)] :
        ua \in { r \in rows : r.user_id = userId
                              /\ r.authority_id \in AuthorityIds } }

JoinedRows(rows, userId) ==
    { [ua_id |-> ua.id, authority |-> AuthorityById(ua.authority_id)] :
        ua \in { r \in rows : r.user_id = userId /\ r.is_active
                              /\ r.authority_id \in AuthorityIds } }

\* ORDER BY a.level ASC (assignment id breaks ties)
RECURSIVE OrderByLevel(_)
OrderByLevel(S) ==
    IF S = {} THEN <<>>
    ELSE LET m == CHOOSE r \in S : \A q \in S :
                       \/ r.authority.level < q.authority.level
                       \/ /\ r.authority.level = q.authority.level
                          /\ r.ua_id <= q.ua_id
         IN <<m.authority>> \o OrderByLevel(S \ {m})

\* getDefaultAuthority: the LEADER row of category MINISTRY, null when the
\* query throws or returns no row.  Result is a sequence of 0 or 1 rows.
MutGetDefaultAuthority(qDefault) == <<>>

getDefaultAuthority(qDefault) ==
    IF qDefault = "fail" THEN <<>>
    ELSE LET found == { a \in Authorities :
                          a.name = "LEADER" /\ a.category_id = MinistryCategoryId }
         IN IF found = {} THEN <<>> ELSE <<CHOOSE a \in found : TRUE>>

\* getUserAuthorities(connection, userId); qMain and qDefault are the
\* outcomes ("ok" / "fail") of the two queries it issues
MutGetUserAuthorities(rows, userId, qMain, qDefault) ==
    IF qMain = "fail" THEN NullResponse
    ELSE LET genuine == OrderByLevel(JoinedRows(rows, userId))
             authorities == IF Len(genuine) = 0
                            THEN getDefaultAuthority(qDefault)
                            ELSE genuine
         IN [found |-> TRUE,
             userId |-> userId,
             authorities |-> authorities,
             highestAuthorityLevel |->
                 IF Len(authorities) > 0 THEN MinLevel(authorities) ELSE 999]

getUserAuthorities(rows, userId, qMain, qDefault) ==
    IF qMain = "fail" THEN NullResponse
    ELSE IF userId \notin Users THEN NullResponse
    ELSE LET genuine == OrderByLevel(JoinedRows(rows, userId))
             authorities == IF Len(genuine) = 0
                            THEN getDefaultAuthority(qDefault)
                            ELSE genuine
         IN [found |-> TRUE,
             userId |-> userId,
             authorities |-> authorities,
             highestAuthorityLevel |->
                 IF Len(authorities) > 0 THEN MinLevel(authorities) ELSE 999]

\* resolve(userId) when both queries are answered
Resolve(userId) == getUserAuthorities(user_authorities, userId, "ok", "ok")

\* INSERT ... ON DUPLICATE KEY UPDATE is_active = TRUE on the unique key
\* (user_id, authority_id).  The columns assigned_by and assigned_at are
\* written too; no read in the code depends on them and rows omit them.
MutUpsertAssignment(rows, userId, authorityId) ==
    rows \cup { [id |-> Cardinality(rows) + 1, user_id |-> userId,
                 authority_id |-> authorityId, is_active |-> TRUE] }

UpsertAssignment(rows, userId, authorityId) ==
    IF \E r \in rows : r.user_id = userId /\ r.authority_id = authorityId
    THEN { IF r.user_id = userId /\ r.authority_id = authorityId
           THEN [r EXCEPT !.is_active = TRUE]
           ELSE r : r \in rows }
    ELSE rows \cup { [id |-> Cardinality(rows) + 1, user_id |-> userId,
                      authority_id |-> authorityId, is_active |-> TRUE] }

\* addUserAuthority: <<returned boolean, table afterwards>>
addUserAuthority(rows, userId, authorityId, q) ==
    IF q = "fail" THEN <<FALSE, rows>>
    ELSE <<TRUE, UpsertAssignment(rows, userId, authorityId)>>

\* UPDATE user_authorities SET is_active = FALSE WHERE user_id = ? AND authority_id = ?
MutDeactivateAssignment(rows, userId, authorityId) ==
    { IF r.user_id = userId THEN [r EXCEPT !.is_active = FALSE] ELSE r : r \in rows }

DeactivateAssignment(rows, userId, authorityId) ==
    { IF r.user_id = userId /\ r.authority_id = authorityId
      THEN [r EXCEPT !.is_active = FALSE] ELSE r : r \in rows }

\* removeUserAuthority: <<returned boolean, table afterwards>>
removeUserAuthority(rows, userId, authorityId, q) ==
    IF q = "fail" THEN <<FALSE, rows>>
    ELSE <<TRUE, DeactivateAssignment(rows, userId, authorityId)>>

MutCanAccessByLevel(userAuthorities, requiredLevel) ==
    userAuthorities.highestAuthorityLevel = requiredLevel

canAccessByLevel(userAuthorities, requiredLevel) ==
    userAuthorities.highestAuthorityLevel <= requiredLevel

canManageUsers(userAuthorities) == canAccessByLevel(userAuthorities, 4)

---------------------------------------------------------------------------
(* Handlers that change user_authorities *)

Actions == {"add", "remove", "promote"}     \* body.action; only add / remove act
\* the query of a request that throws, if any: the resolve of the caller,
\* the resolve of the target, the add / remove statement, the re-query, or
\* the default-role lookup of the re-query
ServiceFaults == {"none", "cur", "target", "mutate", "updated", "updatedDefault"}

Q(fault, point) == IF fault = point THEN "fail" ELSE "ok"

AuthResponse(handler, caller, target, action, authorityId, status, authorities) ==
    [handler |-> handler, caller |-> caller, target |-> target,
     action |-> action, authorityId |-> authorityId, status |-> status,
     authorities |-> authorities]

\* the add / remove dispatch shared by both handlers: <<success, table>>
ChangeAuthority(rows, action, userId, authorityId, q) ==
    IF action = "add" THEN addUserAuthority(rows, userId, authorityId, q)
    ELSE IF action = "remove" THEN removeUserAuthority(rows, userId, authorityId, q)
    ELSE <<FALSE, rows>>

\* a new row fits the bound of the model
RoomFor(rows, userId, authorityId) ==
    \/ \E r \in rows : r.user_id = userId /\ r.authority_id = authorityId
    \/ Cardinality(rows) < MaxUaRows

\* PUT /api/users/me : the caller adds or removes one of their own authorities
PutMe(caller, action, authorityId, fault) ==
    /\ action = "add" => RoomFor(user_authorities, caller, authorityId)
    /\ LET current == getUserAuthorities(user_authorities, caller,
                                         Q(fault, "cur"), "ok")
           change  == ChangeAuthority(user_authorities, action, caller,
                                      authorityId, Q(fault, "mutate"))
           updated == getUserAuthorities(change[2], caller,
                                         Q(fault, "updated"), Q(fault, "updatedDefault"))
           R(status, auths) == AuthResponse("PUT /api/users/me", caller, caller,
                                            action, authorityId, status, auths)
       IN IF authorityId = 0
          THEN /\ authOut' = R(400, NullResponse)
               /\ UNCHANGED user_authorities
          ELSE IF ~current.found
          THEN /\ authOut' = R(404, NullResponse)
               /\ UNCHANGED user_authorities
          ELSE IF ~change[1]
          THEN /\ authOut' = R(500, NullResponse)
               /\ UNCHANGED user_authorities
          ELSE /\ authOut' = R(200, updated)
               /\ user_authorities' = change[2]
    /\ UNCHANGED <<notifVars, poolVars, guardVars, raceVars>>

\* POST /api/authorities : a caller with canManageUsers changes a target user
PostAuthorities(caller, target, action, authorityId, fault) ==
    /\ action = "add" => RoomFor(user_authorities, target, authorityId)
    /\ LET current == getUserAuthorities(user_authorities, caller,
                                         Q(fault, "cur"), "ok")
           targetAuths == getUserAuthorities(user_authorities, target,
                                         Q(fault, "target"), "ok")
           change  == ChangeAuthority(user_authorities, action, target,
                                      authorityId, Q(fault, "mutate"))
           updated == getUserAuthorities(change[2], target,
                                         Q(fault, "updated"), Q(fault, "updatedDefault"))
           R(status, auths) == AuthResponse("POST /api/authorities", caller, target,
                                            action, authorityId, status, auths)
       IN IF authorityId = 0
          THEN /\ authOut' = R(400, NullResponse)
               /\ UNCHANGED user_authorities
          ELSE IF ~current.found \/ ~canManageUsers(current)
          THEN /\ authOut' = R(403, NullResponse)
               /\ UNCHANGED user_authorities
          ELSE IF ~targetAuths.found
          THEN /\ authOut' = R(404, NullResponse)
               /\ UNCHANGED user_authorities
          ELSE IF ~change[1]
          THEN /\ authOut' = R(500, NullResponse)
               /\ UNCHANGED user_authorities
          ELSE /\ authOut' = R(200, updated)
               /\ user_authorities' = change[2]
    /\ UNCHANGED <<notifVars, poolVars, guardVars, raceVars>>

\* for (const authorityId of authorities) INSERT ... ON DUPLICATE KEY UPDATE
\* is_active = 1, in ascending id order
RECURSIVE InsertAll(_, _, _)
InsertAll(rows, userId, ids) ==
    IF ids = {} THEN rows
    ELSE LET a == CHOOSE x \in ids : \A y \in ids : x <= y
         IN InsertAll(UpsertAssignment(rows, userId, a), userId, ids \ {a})

\* UPDATE user_authorities SET is_active = 0 WHERE user_id = ?
MutDeactivateAll(rows, userId) == { r \in rows : r.user_id # userId }

DeactivateAll(rows, userId) ==
    { IF r.user_id = userId THEN [r EXCEPT !.is_active = FALSE] ELSE r : r \in rows }

BulkFaults == {"none", "deactivate", "insert", "commit"}

\* one element of the updates array; a statement that throws is caught per
\* update and leaves the statements before it in the transaction
ApplyUpdate(rows, update, fault) ==
    IF update.id = 0 \/ ~update.hasAuthorities THEN rows
    ELSE IF fault = "deactivate" THEN rows
    ELSE IF fault = "insert" /\ update.authorities # {} THEN DeactivateAll(rows, update.id)
    ELSE InsertAll(DeactivateAll(rows, update.id), update.id, update.authorities)

RECURSIVE ApplyUpdates(_, _, _)
ApplyUpdates(rows, updates, fault) ==
    IF updates = <<>> THEN rows
    ELSE ApplyUpdates(ApplyUpdate(rows, Head(updates), fault), Tail(updates), "none")

\* elements of the updates array: no id, no authorities array, or a user
\* with the array of authority ids that replaces the active ones
UpdateInputs ==
    { [id |-> 0, hasAuthorities |-> TRUE, authorities |-> {}] }
    \cup { [id |-> u, hasAuthorities |-> FALSE, authorities |-> {}] : u \in Users }
    \cup { [id |-> u, hasAuthorities |-> TRUE, authorities |-> A] :
             u \in Users, A \in SUBSET AuthorityIds }

\* PATCH /api/users : bulk replacement of the authorities of several users
PatchUsers(updates, fault) ==
    /\ LET after == ApplyUpdates(user_authorities, updates, fault)
           last  == updates[Len(updates)]
       IN /\ Cardinality(after) <= MaxUaRows
          /\ IF fault = "commit"
             THEN /\ UNCHANGED user_authorities
                  /\ authOut' = AuthResponse("PATCH /api/users", 0, last.id,
                                             "replace", 0, 500, NullResponse)
             ELSE /\ user_authorities' = after
                  /\ authOut' = AuthResponse("PATCH /api/users", 0, last.id,
                                             "replace", 0, 200, NullResponse)
    /\ UNCHANGED <<notifVars, poolVars, guardVars, raceVars>>

---------------------------------------------------------------------------
(* Push tokens and the messaging provider *)

\* a stored token: its text class, its length and whether every character
\* matches [a-zA-Z0-9_:-]; isNull is SQL NULL
NullToken == [isNull |-> TRUE, text |-> "", len |-> 0, charsOk |-> TRUE]

Token(text, len, charsOk) ==
    [isNull |-> FALSE, text |-> text, len |-> len, charsOk |-> charsOk]

\* tokens a client may have registered for user u: none, a well-formed
\* 150-character token, the 4-character placeholder "null", and a
\* 250-character token that contains a space
DeviceTexts == <<"device-1", "device-2", "device-3", "device-4">>
SpacedTexts == <<"spaced 1", "spaced 2", "spaced 3", "spaced 4">>

TokenChoices(u) ==
    { NullToken,
      Token(DeviceTexts[u], 150, TRUE),
      Token("null", 4, TRUE),
      Token(SpacedTexts[u], 250, FALSE) }

invalidTokens == {"invalid_token", "test_token", "dummy_token", "null",
                  "undefined", "example_token"}

\* token.toLowerCase() on the texts that differ from their lower case
toLowerCase(text) ==
    IF text = "NULL" THEN "null"
    ELSE IF text = "Test_Token" THEN "test_token"
    ELSE text

\* isValidFCMToken(token); a string of white space alone, which trim()
\* empties, has charsOk = FALSE
MutIsValidFCMToken(token) ==
    IF token.isNull \/ token.len = 0 THEN FALSE
    ELSE IF token.len < 100 THEN FALSE
    ELSE IF ~token.charsOk THEN FALSE
    ELSE IF toLowerCase(token.text) \in invalidTokens THEN FALSE
    ELSE TRUE

isValidFCMToken(token) ==
    IF token.isNull \/ token.len = 0 THEN FALSE
    ELSE IF token.len < 100 \/ token.len > 300 THEN FALSE
    ELSE IF ~token.charsOk THEN FALSE
    ELSE IF toLowerCase(token.text) \in invalidTokens THEN FALSE
    ELSE TRUE

\* FCMService.validateToken(fcmToken).isValid
validateToken(token) ==
    IF token.isNull \/ token.len = 0 THEN FALSE
    ELSE isValidFCMToken(token)

\* A token string by its make-up: runs of one character each, in order.
\* The characters stand for their classes: letter, digit, the three
\* punctuation marks the pattern admits, and two it does not.
MaxRuns == 2
RunLengths == {50, 100, 150, 201}
PatternChars == {"a", "7", "-", "_", ":"}

Run(char, count) == [char |-> char, count |-> count]

\* runs of a letter, a hyphen or a space of every length, and runs of
\* 100 of the other characters
TokenRuns ==
    { Run(c, k) : c \in {"a", "-", " "}, k \in RunLengths }
    \cup { Run(c, 100) : c \in {"7", "_", ":", "!"} }

RECURSIVE StringLength(_)
StringLength(runs) ==
    IF runs = <<>> THEN 0 ELSE Head(runs).count + StringLength(Tail(runs))

\* /^[a-zA-Z0-9_:-]+$/.test(token)
fcmTokenPattern(runs) ==
    /\ Len(runs) > 0
    /\ \A i \in 1..Len(runs) : runs[i].char \in PatternChars

\* short strings given by their text: the placeholders of the list, two
\* spellings that lower-case into it, and one word that is not in it
LiteralRuns ==
    [text \in {"invalid_token", "test_token", "dummy_token", "null", "undefined",
               "example_token", "NULL", "Test_Token", "token", "abcdefghij"} |->
        IF text \in {"null", "NULL"} THEN <<Run("a", 4)>>
        ELSE IF text = "undefined" THEN <<Run("a", 9)>>
        ELSE IF text = "token" THEN <<Run("a", 5)>>
        ELSE IF text = "abcdefghij" THEN <<Run("a", 10)>>
        ELSE IF text = "invalid_token" THEN <<Run("a", 7), Run("_", 1), Run("a", 5)>>
        ELSE IF text = "example_token" THEN <<Run("a", 7), Run("_", 1), Run("a", 5)>>
        ELSE IF text = "dummy_token" THEN <<Run("a", 5), Run("_", 1), Run("a", 5)>>
        ELSE <<Run("a", 4), Run("_", 1), Run("a", 5)>>]

\* what validateToken can be handed: null, a string known by its text, or
\* a string known by its runs (the empty string has none)
TokenInputs ==
    { [isNull |-> TRUE, text |-> "", runs |-> <<>>] }
    \cup { [isNull |-> FALSE, text |-> t, runs |-> LiteralRuns[t]] :
             t \in DOMAIN LiteralRuns }
    \cup { [isNull |-> FALSE, text |-> "", runs |-> r] :
             r \in UNION { [1..n -> TokenRuns] : n \in 0..MaxRuns } }

\* the token as the validity checks see it
TokenOf(input) ==
    IF input.isNull THEN NullToken
    ELSE Token(input.text, StringLength(input.runs), fcmTokenPattern(input.runs))

NoValidation == [input |-> [isNull |-> TRUE, text |-> "", runs |-> <<>>],
                 called |-> FALSE, isValid |-> FALSE]

\* FCMService.validateToken(fcmToken)
ValidateToken(input) ==
    /\ tokenValidation' = [input |-> input, called |-> TRUE,
                           isValid |-> validateToken(TokenOf(input))]
    /\ UNCHANGED <<view_count, academic_years, guardOut, authVars, notifVars,
                   poolVars, raceVars>>

\* FCMService.isAvailable()
isAvailable == isFirebaseInitialized

\* SELECT id, fcm_token FROM users WHERE fcm_token IS NOT NULL AND fcm_token != ''
UsersWithToken == { u \in Users : ~fcm_token[u].isNull /\ fcm_token[u].len > 0 }

---------------------------------------------------------------------------
(* Table notifications and the per-recipient steps of the fan-out *)

MaxContents == 2        \* content items created in one run
MaxNotifications == 4   \* rows the notifications table may grow to
MaxDeferred == 1        \* setImmediate callbacks waiting at one time
MaxInboxRows == 2       \* rows written by single-recipient requests

\* INSERT INTO notifications (... is_read) VALUES (..., 0)
\* (title, message, sender and created_at are left out: no statement reads
\* them back)
InsertNotification(notifs, userId, type, relatedId) ==
    notifs \cup { [id |-> Cardinality(notifs) + 1, user_id |-> userId,
                   type |-> type, related_id |-> relatedId, is_read |-> FALSE] }

\* SELECT COUNT(*) FROM notifications WHERE user_id = ? AND is_read = 0
UnreadCount(notifs, userId) ==
    Cardinality({ r \in notifs : r.user_id = userId /\ ~r.is_read })

\* rows of a SELECT on users in id order
RECURSIVE InIdOrder(_)
InIdOrder(S) ==
    IF S = {} THEN <<>>
    ELSE LET m == CHOOSE x \in S : \A y \in S : x <= y
         IN <<m>> \o InIdOrder(S \ {m})

Stmt(op, userId) == [op |-> op, user |-> userId]

StmtsFor(op, us) == [i \in 1..Len(us) |-> Stmt(op, us[i])]

EmptyFanout(notifs) ==
    [notifs |-> notifs, items |-> <<>>, stmts |-> <<>>, rowsFor |-> {},
     threw |-> FALSE]

\* testimonies and events: for (const user of users) { validate; await
\* INSERT; await COUNT; push } with a try / catch around each recipient
RECURSIVE SequentialFanout(_, _, _, _, _, _)
SequentialFanout(acc, recips, type, relatedId, fault, faultUser) ==
    IF recips = <<>> THEN acc
    ELSE LET u == Head(recips)
             inserted == InsertNotification(acc.notifs, u, type, relatedId)
             next ==
               IF ~validateToken(fcm_token[u]) THEN acc
               ELSE IF fault = "insert" /\ u = faultUser
               THEN [acc EXCEPT !.stmts = Append(@, Stmt("insert", u))]
               ELSE IF fault = "count" /\ u = faultUser
               THEN [acc EXCEPT !.notifs = inserted,
                                !.rowsFor = @ \cup {u},
                                !.stmts = @ \o <<Stmt("insert", u), Stmt("count", u)>>]
               ELSE [acc EXCEPT !.notifs = inserted,
                                !.rowsFor = @ \cup {u},
                                !.stmts = @ \o <<Stmt("insert", u), Stmt("count", u)>>,
                                !.items = Append(@, [user |-> u, token |-> fcm_token[u],
                                     badgeCount |-> UnreadCount(inserted, u)])]
         IN SequentialFanout(next, Tail(recips), type, relatedId, fault, faultUser)

RECURSIVE InsertFor(_, _, _, _)
InsertFor(notifs, recips, type, relatedId) ==
    IF recips = <<>> THEN notifs
    ELSE InsertFor(InsertNotification(notifs, Head(recips), type, relatedId),
                   Tail(recips), type, relatedId)

Before(recips, u) == SelectSeq(recips, LAMBDA x : x < u)
After(recips, u)  == SelectSeq(recips, LAMBDA x : x > u)
Without(recips, u) == SelectSeq(recips, LAMBDA x : x # u)

\* notices: users.map(async (user) => { await INSERT; await COUNT }) under
\* Promise.all.  Every INSERT is issued when map runs; each COUNT is issued
\* when its INSERT has completed, behind the INSERTs already queued on the
\* connection.  A statement that throws rejects Promise.all: the handler
\* goes on to release the connection while the other callbacks still run.
ConcurrentFanout(notifs, recips, type, relatedId, fault, faultUser) ==
    LET hit == fault \in {"insert", "count"}
                 /\ \E i \in 1..Len(recips) : recips[i] = faultUser
        rowUsers == IF hit /\ fault = "insert" THEN Without(recips, faultUser)
                    ELSE recips
        after == InsertFor(notifs, rowUsers, type, relatedId)
        counted == IF ~hit THEN recips
                   ELSE IF fault = "insert" THEN Before(recips, faultUser)
                   ELSE Before(recips, faultUser) \o <<faultUser>>
    IN [notifs |-> after,
        items |-> IF hit THEN <<>>
                  ELSE [i \in 1..Len(recips) |->
                          [user |-> recips[i], token |-> fcm_token[recips[i]],
                           badgeCount |-> UnreadCount(after, recips[i])]],
        stmts |-> StmtsFor("insert", recips) \o StmtsFor("count", counted)
                  \o (IF hit THEN <<Stmt("release", 0)>>
                               \o StmtsFor("count", After(recips, faultUser))
                      ELSE <<>>),
        rowsFor |-> { rowUsers[i] : i \in 1..Len(rowUsers) },
        threw |-> hit]

---------------------------------------------------------------------------
(* Content-creation handlers: POST /api/notices, /api/testimonies, /api/events *)

\* the statement or send of a request that throws, if any
\* ("send": messaging.send throws for a generic reason; "unregistered": it
\* throws because the provider no longer knows the registration token)
FanoutFaults == {"none", "primary", "enumerate", "insert", "count", "send",
                 "unregistered"}

ContentsOf(kind) == { c \in contents : c.kind = kind }

Request(handler, actor, status, success, warning, content, fan, scheduled, fault) ==
    [handler |-> handler, actor |-> actor, status |-> status,
     success |-> success, warning |-> warning, content |-> content,
     recipients |-> fan.recipients, eligible |-> fan.eligible,
     rowsFor |-> fan.rowsFor, stmts |-> fan.stmts,
     scheduled |-> scheduled, fault |-> fault, unread_count |-> 0]

NoFan == [recipients |-> {}, eligible |-> {}, rowsFor |-> {}, stmts |-> <<>>]

\* req holds the response of the step just taken when it was a request,
\* delivery the report of the step just taken when it was a callback
NoRequest ==
    [handler |-> "none", actor |-> 0, status |-> 0, success |-> FALSE,
     warning |-> FALSE, content |-> 0, recipients |-> {}, eligible |-> {},
     rowsFor |-> {}, stmts |-> <<>>, scheduled |-> FALSE, fault |-> "none",
     unread_count |-> 0]

NoDelivery ==
    [ran |-> FALSE, handler |-> "none", content |-> 0, eligible |-> {},
     recipients |-> {}, rowsFor |-> {}, batch |-> <<>>, attempts |-> <<>>,
     success |-> 0, failure |-> 0, fault |-> "none", outcomes |-> <<>>,
     invalidTokens |-> {}, reported |-> {}, cleared |-> {}]

Batch(handler, mode, content, fan, items, fault, faultUser) ==
    [handler |-> handler, mode |-> mode, content |-> content,
     recipients |-> fan.recipients, eligible |-> fan.eligible,
     rowsFor |-> fan.rowsFor, items |-> items,
     fault |-> fault, faultUser |-> faultUser]

\* the status of the response when the block after the primary write threw:
\* the inner catch logs the exception and the handler goes on to its
\* success response
MutStatusAfterCommit(threw) == IF threw THEN 500 ELSE 200

StatusAfterCommit(threw) == 200

\* the part of the three handlers after the primary write: the availability
\* gate, the recipient query, the per-recipient steps and the scheduling of
\* the delivery batch, all inside the inner try / catch.
\*   concurrent   : notices run the recipients under Promise.all
\*   releaseFirst : testimonies release the connection right after commit
CreateContent(handler, kind, author, bodyOk, fault, faultUser, concurrent, releaseFirst) ==
    LET id == Cardinality(ContentsOf(kind)) + 1
        recips == InIdOrder(UsersWithToken)
        eligible == { u \in UsersWithToken : validateToken(fcm_token[u]) }
        pre == IF releaseFirst THEN <<Stmt("release", 0)>> ELSE <<>>
        post == IF releaseFirst THEN <<>> ELSE <<Stmt("release", 0)>>
        run == IF concurrent
               THEN ConcurrentFanout(notifications, recips, kind, id, fault, faultUser)
               ELSE SequentialFanout(EmptyFanout(notifications), recips, kind, id,
                                     fault, faultUser)
        released == \E i \in 1..Len(run.stmts) : run.stmts[i].op = "release"
        fan == [recipients |-> UsersWithToken, eligible |-> eligible,
                rowsFor |-> run.rowsFor,
                stmts |-> pre \o <<Stmt("select_users", 0)>> \o run.stmts
                          \o (IF released THEN <<>> ELSE post)]
        gate == [NoFan EXCEPT !.stmts = pre \o post]
        failedEnum == [NoFan EXCEPT !.stmts = pre \o <<Stmt("select_users", 0)>> \o post]
        schedule == ~run.threw /\ Len(run.items) > 0
    IN IF ~bodyOk
       THEN /\ req' = Request(handler, author, 400, FALSE, FALSE, 0, NoFan, FALSE, fault)
            /\ UNCHANGED <<contents, notifications, deferred>>
       ELSE IF fault = "primary"
       THEN /\ req' = Request(handler, author, 500, FALSE, FALSE, 0,
                              [NoFan EXCEPT !.stmts = <<Stmt("release", 0)>>],
                              FALSE, fault)
            /\ UNCHANGED <<contents, notifications, deferred>>
       ELSE /\ contents' = contents \cup { [kind |-> kind, id |-> id] }
            /\ IF ~isAvailable
               THEN /\ req' = Request(handler, author, 200, TRUE, TRUE, id, gate,
                                      FALSE, fault)
                    /\ UNCHANGED <<notifications, deferred>>
               ELSE IF fault = "enumerate"
               THEN /\ req' = Request(handler, author, StatusAfterCommit(TRUE),
                                      StatusAfterCommit(TRUE) = 200, FALSE, id,
                                      failedEnum, FALSE, fault)
                    /\ UNCHANGED <<notifications, deferred>>
               ELSE /\ notifications' = run.notifs
                    /\ req' = Request(handler, author, StatusAfterCommit(run.threw),
                                      StatusAfterCommit(run.threw) = 200, FALSE, id,
                                      fan, schedule, fault)
                    /\ deferred' =
                         IF schedule
                         THEN Append(deferred,
                                Batch(handler, IF concurrent THEN "perDevice" ELSE "multi",
                                      id, fan, run.items, fault, faultUser))
                         ELSE deferred

RoomForContent ==
    /\ Cardinality(contents) < MaxContents
    /\ Cardinality(notifications) + Cardinality(UsersWithToken) <= MaxNotifications
    /\ Len(deferred) < MaxDeferred

\* POST /api/notices
PostNotice(author, bodyOk, fault, faultUser) ==
    /\ RoomForContent
    /\ CreateContent("POST /api/notices", "notice", author, bodyOk, fault,
                     faultUser, TRUE, FALSE)
    /\ delivery' = NoDelivery
    /\ UNCHANGED <<isFirebaseInitialized, fcm_token, comment_likes,
                   authVars, poolVars, guardVars, raceVars>>

\* POST /api/testimonies
PostTestimony(author, bodyOk, fault, faultUser) ==
    /\ RoomForContent
    /\ CreateContent("POST /api/testimonies", "testimony", author, bodyOk, fault,
                     faultUser, FALSE, TRUE)
    /\ delivery' = NoDelivery
    /\ UNCHANGED <<isFirebaseInitialized, fcm_token, comment_likes,
                   authVars, poolVars, guardVars, raceVars>>

\* POST /api/events
PostEvent(author, bodyOk, fault, faultUser) ==
    /\ RoomForContent
    /\ CreateContent("POST /api/events", "event", author, bodyOk, fault,
                     faultUser, FALSE, FALSE)
    /\ delivery' = NoDelivery
    /\ UNCHANGED <<isFirebaseInitialized, fcm_token, comment_likes,
                   authVars, poolVars, guardVars, raceVars>>

---------------------------------------------------------------------------
(* POST /api/notifications : direct single-recipient notification *)

NaN == -1

DigitChars == <<"1", "2", "3", "4", "5", "6", "7", "8", "9">>

DigitValue(c) ==
    IF c = "0" THEN 0
    ELSE IF \E d \in 1..9 : DigitChars[d] = c
    THEN CHOOSE d \in 1..9 : DigitChars[d] = c
    ELSE NaN

\* value of the leading run of decimal digits of a character sequence,
\* NaN when the sequence does not start with a digit
RECURSIVE LeadingDigits(_, _, _)
LeadingDigits(chars, acc, seen) ==
    IF chars = <<>> \/ DigitValue(Head(chars)) = NaN
    THEN (IF seen THEN acc ELSE NaN)
    ELSE LeadingDigits(Tail(chars), 10 * acc + DigitValue(Head(chars)), TRUE)

\* values of body.recipient_id: a JSON number, a JSON string of digits, or
\* the JSON literal true
NumberValue(n) == [kind |-> "number", n |-> n, chars |-> <<>>]
StringValue(chars) == [kind |-> "string", n |-> 0, chars |-> chars]
TrueValue == [kind |-> "boolean", n |-> 0, chars |-> <<>>]

RecipientInputs ==
    { NumberValue(n) : n \in RequestUserIds }
    \cup { StringValue(<<DigitChars[n]>>) : n \in RequestUserIds }
    \cup { TrueValue }

\* parseInt(recipient_id): the argument is converted to a string first, so
\* the literal true parses as "true" and gives NaN
parseInt(v) ==
    IF v.kind = "number" THEN v.n
    ELSE IF v.kind = "string" THEN LeadingDigits(v.chars, 0, FALSE)
    ELSE NaN

\* the integer a ? parameter stands for in `id = ?` and in the INSERT of
\* user_id: the driver writes a number as is, a string as a quoted literal
\* that the server converts to a number, and true as the literal TRUE (1)
SqlInteger(v) ==
    IF v.kind = "number" THEN v.n
    ELSE IF v.kind = "string"
    THEN (IF LeadingDigits(v.chars, 0, FALSE) = NaN THEN 0
          ELSE LeadingDigits(v.chars, 0, FALSE))
    ELSE 1

validTypes == {"like", "comment", "reply", "testimony", "system"}

PostNotification(actor, recipient_id, type, relatedId, fault) ==
    /\ Cardinality(notifications) < MaxInboxRows
    /\ Len(deferred) < MaxDeferred
    /\ LET handler == "POST /api/notifications"
           recipient == SqlInteger(recipient_id)
           inserted == InsertNotification(notifications, recipient, type, relatedId)
           token == fcm_token[recipient]
           hasToken == ~token.isNull /\ token.len > 0
           fan == [recipients |-> IF hasToken THEN {recipient} ELSE {},
                   eligible |-> IF hasToken /\ validateToken(token)
                                THEN {recipient} ELSE {},
                   rowsFor |-> {recipient},
                   stmts |-> <<Stmt("select_user", recipient), Stmt("select_user", actor),
                               Stmt("insert", recipient), Stmt("select_token", recipient),
                               Stmt("count", recipient), Stmt("release", 0)>>]
           R(status, success, f, scheduled) ==
               Request(handler, actor, status, success, FALSE, 0, f, scheduled, fault)
       IN IF type \notin validTypes
          THEN /\ req' = R(400, FALSE, NoFan, FALSE)
               /\ UNCHANGED <<notifications, deferred>>
          ELSE IF recipient \notin Users
          THEN /\ req' = R(404, FALSE, NoFan, FALSE)
               /\ UNCHANGED <<notifications, deferred>>
          ELSE IF parseInt(recipient_id) = actor
          THEN /\ req' = R(200, TRUE, NoFan, FALSE)
               /\ UNCHANGED <<notifications, deferred>>
          ELSE IF fault = "insert"
          THEN /\ req' = R(500, FALSE, NoFan, FALSE)
               /\ UNCHANGED <<notifications, deferred>>
          ELSE IF fault = "count"
          THEN /\ req' = R(500, FALSE, [fan EXCEPT !.recipients = {}, !.eligible = {}],
                           FALSE)
               /\ notifications' = inserted
               /\ UNCHANGED deferred
          ELSE /\ req' = R(200, TRUE, fan, hasToken)
               /\ notifications' = inserted
               /\ deferred' =
                    IF hasToken
                    THEN Append(deferred,
                           Batch(handler, "single", 0, fan,
                                 <<[user |-> recipient, token |-> token,
                                    badgeCount |-> UnreadCount(inserted, recipient)]>>,
                                 fault, recipient))
                    ELSE deferred
    /\ delivery' = NoDelivery
    /\ UNCHANGED <<isFirebaseInitialized, fcm_token, contents, comment_likes,
                   authVars, poolVars, guardVars, raceVars>>

---------------------------------------------------------------------------
(* POST /api/testimony-comments/[id]/like : like toggle with notification *)

\* table testimony_comments: one comment, written by user 1
CommentIds == {1}
CommentAuthor(c) == 1

CommentLike(actor, commentId, fault) ==
    /\ Cardinality(notifications) < MaxInboxRows
    /\ LET handler == "POST /api/testimony-comments/[id]/like"
           isLiked == <<commentId, actor>> \in comment_likes
           author == CommentAuthor(commentId)
           notify == ~isLiked /\ author # actor /\ fault # "insert"
           fan == [NoFan EXCEPT !.rowsFor = IF notify THEN {author} ELSE {},
                                !.stmts = <<Stmt("release", 0)>>]
       IN IF commentId \notin CommentIds
          THEN /\ req' = Request(handler, actor, 404, FALSE, FALSE, 0, fan, FALSE, fault)
               /\ UNCHANGED <<comment_likes, notifications>>
          ELSE IF fault = "primary"
          THEN /\ req' = Request(handler, actor, 500, FALSE, FALSE, 0, 
                                 [fan EXCEPT !.rowsFor = {}], FALSE, fault)
               /\ UNCHANGED <<comment_likes, notifications>>
          ELSE /\ comment_likes' = IF isLiked
                                   THEN comment_likes \ {<<commentId, actor>>}
                                   ELSE comment_likes \cup {<<commentId, actor>>}
               /\ notifications' =
                    IF notify
                    THEN InsertNotification(notifications, author, "comment_like",
                                            commentId)
                    ELSE notifications
               /\ req' = Request(handler, actor, 200, TRUE, FALSE, 0, fan, FALSE, fault)
    /\ delivery' = NoDelivery
    /\ UNCHANGED <<isFirebaseInitialized, fcm_token, contents, deferred,
                   authVars, poolVars, guardVars, raceVars>>

---------------------------------------------------------------------------
(* The setImmediate callbacks: push delivery after the response *)

\* the items of a batch whose send reaches messaging.send: sendToDevice
\* returns false before the send when the provider is unavailable or when
\* validateToken rejects the token
RECURSIVE Attempted(_)
Attempted(items) ==
    IF items = <<>> THEN <<>>
    ELSE (IF isAvailable /\ validateToken(Head(items).token)
          THEN <<Head(items).user>> ELSE <<>>) \o Attempted(Tail(items))

\* result.invalidTokens of sendToMultipleDevices
RejectedTokens(items) ==
    { items[i].token : i \in { j \in 1..Len(items) :
                                 ~isAvailable \/ ~validateToken(items[j].token) } }

\* UPDATE users SET fcm_token = NULL WHERE fcm_token = ?, once per token
CleanupTokens(tokens) ==
    [u \in Users |-> IF fcm_token[u] \in tokens THEN NullToken ELSE fcm_token[u]]

SendFaults == {"send", "unregistered"}

\* FCMService.sendToDevice for one item of a batch: false before the send
\* ("refused"), false from the catch around messaging.send ("failed"), or
\* true ("sent")
sendToDevice(item, fault, faultUser) ==
    [user |-> item.user, token |-> item.token,
     outcome |-> IF ~isAvailable \/ ~validateToken(item.token) THEN "refused"
                 ELSE IF fault \in SendFaults /\ item.user = faultUser THEN "failed"
                 ELSE "sent"]

\* Promise.all over one sendToDevice per item; sendToDevice catches what
\* its send throws, so every item of the batch is handed to it
RECURSIVE MutSendAll(_, _, _)
MutSendAll(items, fault, faultUser) ==
    IF items = <<>> THEN <<>>
    ELSE IF sendToDevice(Head(items), fault, faultUser).outcome = "failed"
    THEN <<sendToDevice(Head(items), fault, faultUser)>>
    ELSE <<sendToDevice(Head(items), fault, faultUser)>>
           \o MutSendAll(Tail(items), fault, faultUser)

RECURSIVE SendAll(_, _, _)
SendAll(items, fault, faultUser) ==
    IF items = <<>> THEN <<>>
    ELSE <<sendToDevice(Head(items), fault, faultUser)>>
           \o SendAll(Tail(items), fault, faultUser)

RunDeferred ==
    /\ deferred # <<>>
    /\ LET b == Head(deferred)
           attempts == Attempted(b.items)
           outcomes == SendAll(b.items, b.fault, b.faultUser)
           success == Len(SelectSeq(outcomes, LAMBDA o : o.outcome = "sent"))
           collected == IF b.mode = "multi" THEN RejectedTokens(b.items) ELSE {}
           cleaned == IF b.handler = "POST /api/testimonies"
                      THEN CleanupTokens(collected)
                      ELSE fcm_token
       IN /\ delivery' = [ran |-> TRUE, handler |-> b.handler, content |-> b.content,
                          eligible |-> b.eligible, recipients |-> b.recipients,
                          rowsFor |-> b.rowsFor, batch |-> b.items,
                          attempts |-> attempts, success |-> success,
                          failure |-> Len(outcomes) - success, fault |-> b.fault,
                          outcomes |-> outcomes,
                          invalidTokens |-> collected,
                          reported |-> { outcomes[i].token :
                                           i \in { k \in 1..Len(outcomes) :
                                                     /\ outcomes[k].outcome = "failed"
                                                     /\ b.fault = "unregistered" } },
                          cleared |-> { u \in Users : cleaned[u] # fcm_token[u] }]
          /\ fcm_token' = cleaned
          /\ deferred' = Tail(deferred)
    /\ req' = NoRequest
    /\ UNCHANGED <<isFirebaseInitialized, notifications, contents, comment_likes,
                   authVars, poolVars, guardVars, raceVars>>

---------------------------------------------------------------------------
(* Read-state transitions of notification rows *)

ReadRequest(handler, actor, status) ==
    Request(handler, actor, status, status = 200, FALSE, 0, NoFan, FALSE, "none")

\* a response that carries unread_count / count
CountResponse(handler, actor, status, count) ==
    [ReadRequest(handler, actor, status) EXCEPT !.unread_count = count]

\* UPDATE notifications SET is_read = 1 WHERE id = ? AND user_id = ? AND is_read = 0
MutUpdateOne(notifs, id, userId) ==
    { IF r.id = id /\ ~r.is_read THEN [r EXCEPT !.is_read = TRUE] ELSE r : r \in notifs }

UpdateOne(notifs, id, userId) ==
    { IF r.id = id /\ r.user_id = userId /\ ~r.is_read
      THEN [r EXCEPT !.is_read = TRUE] ELSE r : r \in notifs }

\* UPDATE notifications SET is_read = 1 WHERE user_id = ? AND is_read = 0
MutUpdateAll(notifs, userId) ==
    { IF r.user_id = userId /\ r.id = 1 /\ ~r.is_read
      THEN [r EXCEPT !.is_read = TRUE] ELSE r : r \in notifs }

UpdateAll(notifs, userId) ==
    { IF r.user_id = userId /\ ~r.is_read
      THEN [r EXCEPT !.is_read = TRUE] ELSE r : r \in notifs }

relatedTypes == {"notice", "testimony"}

TypesRelatedTo(type) ==
    IF type = "notice" THEN {"notice", "like", "comment", "reply"}
    ELSE IF type = "testimony" THEN {"testimony", "like", "comment", "reply"}
    ELSE {}

\* UPDATE notifications SET is_read = 1 WHERE user_id = ? AND related_id = ?
\*   AND is_read = 0 AND (type matches the content kind)
UpdateRelated(notifs, userId, type, relatedId) ==
    { IF r.user_id = userId /\ r.related_id = relatedId /\ ~r.is_read
         /\ r.type \in TypesRelatedTo(type)
      THEN [r EXCEPT !.is_read = TRUE] ELSE r : r \in notifs }

ReadFaults == {"none", "update"}

\* PATCH /api/notifications/[id]/read
MarkRead(actor, id, fault) ==
    /\ LET handler == "PATCH /api/notifications/[id]/read"
           updated == UpdateOne(notifications, id, actor)
       IN IF fault = "update"
          THEN /\ req' = ReadRequest(handler, actor, 500)
               /\ UNCHANGED notifications
          ELSE IF updated = notifications
          THEN /\ req' = ReadRequest(handler, actor, 404)
               /\ UNCHANGED notifications
          ELSE /\ req' = CountResponse(handler, actor, 200,
                                       UnreadCount(updated, actor))
               /\ notifications' = updated
    /\ delivery' = NoDelivery
    /\ UNCHANGED <<isFirebaseInitialized, fcm_token, contents, comment_likes,
                   deferred, authVars, poolVars, guardVars, raceVars>>

\* PATCH /api/notifications/mark-all-read
MarkAllRead(actor, fault) ==
    /\ IF fault = "update"
       THEN /\ req' = ReadRequest("PATCH /api/notifications/mark-all-read", actor, 500)
            /\ UNCHANGED notifications
       ELSE /\ req' = CountResponse("PATCH /api/notifications/mark-all-read", actor,
                                    200, UnreadCount(UpdateAll(notifications, actor),
                                                     actor))
            /\ notifications' = UpdateAll(notifications, actor)
    /\ delivery' = NoDelivery
    /\ UNCHANGED <<isFirebaseInitialized, fcm_token, contents, comment_likes,
                   deferred, authVars, poolVars, guardVars, raceVars>>

\* GET /api/notifications/unread-count
GetUnreadCount(actor, fault) ==
    /\ req' = IF fault = "update"
              THEN CountResponse("GET /api/notifications/unread-count", actor, 500, 0)
              ELSE CountResponse("GET /api/notifications/unread-count", actor, 200,
                                 UnreadCount(notifications, actor))
    /\ delivery' = NoDelivery
    /\ UNCHANGED <<isFirebaseInitialized, fcm_token, notifications, contents,
                   comment_likes, deferred, authVars, poolVars, guardVars, raceVars>>

\* POST /api/notifications/mark-related-read
MarkRelatedRead(actor, type, relatedId, fault) ==
    /\ LET handler == "POST /api/notifications/mark-related-read"
       IN IF type \notin relatedTypes
          THEN /\ req' = ReadRequest(handler, actor, 400)
               /\ UNCHANGED notifications
          ELSE IF fault = "update"
          THEN /\ req' = ReadRequest(handler, actor, 500)
               /\ UNCHANGED notifications
          ELSE /\ req' = ReadRequest(handler, actor, 200)
               /\ notifications' = UpdateRelated(notifications, actor, type, relatedId)
    /\ delivery' = NoDelivery
    /\ UNCHANGED <<isFirebaseInitialized, fcm_token, contents, comment_likes,
                   deferred, authVars, poolVars, guardVars, raceVars>>

---------------------------------------------------------------------------
(* Pooled connections: POST /api/auth/login, /api/join/check-phone and     *)
(* /api/join/new-join                                                      *)

PoolSize == 3     \* connections the pool hands out before getConnection waits
MaxLogins == 2    \* refresh tokens issued to one user in one run

\* phone numbers as character sequences
DigitSet == {"0", "1", "2", "3", "4", "5", "6", "7", "8", "9"}

\* p.replace(/[^0-9]/g, "")
normalizePhone(p) == SelectSeq(p, LAMBDA c : c \in DigitSet)

\* REPLACE(phone, '-', '')
ReplaceDash(p) == SelectSeq(p, LAMBDA c : c # "-")

\* column users.phone of the registered users
UserPhones == << <<"0", "-", "1">>, <<"1", "1">>, <<"1", "0">>, <<"0", "0">> >>

\* body.phone: digits, digits with a hyphen, digits with a blank, an
\* unregistered number, and a body without the field
NoPhone == <<>>
PhoneInputs == { <<"0", "1">>, <<"0", "-", "1">>, <<"0", " ", "1">>,
                 <<"1", "1">>, <<"9", "9">>, NoPhone }

Passwords == {"", "right", "wrong"}

\* the role claim of an issued bearer token: where the handler took it
\* from and its value
NoRole == [from |-> "none", label |-> ""]

\* body.refreshToken by its shape: its type, and for a string its length
\* and whether /^[a-fA-F0-9]+$/ matches it
TokenShape(type, length, hex) == [type |-> type, length |-> length, hex |-> hex]

NoTokenShape == TokenShape("none", 0, FALSE)

\* stmts: what the handler did with its pooled connection, in order
JoinResponse(handler, status, acquired, released) ==
    [handler |-> handler, status |-> status, acquired |-> acquired,
     released |-> released, user |-> 0, role |-> NoRole,
     refreshToken |-> NoTokenShape, stmts |-> <<>>]

\* column users.authority, the single role of the schema before
\* user_authorities; no statement in the code writes it
LegacyAuthority == <<"0", "5", "5", "5">>

\* the role the refresh handler signs: display name of the first resolved
\* authority, or the literal default when resolve gave none
roleForJWT(userAuthorities) ==
    IF userAuthorities.found /\ Len(userAuthorities.authorities) > 0
    THEN userAuthorities.authorities[1].name
    ELSE "LEADER"

\* column users.refresh_token: the n-th token issued to the user, or NULL
NoRefreshToken == [n |-> 0, set |-> FALSE]

\* pool.getConnection() and connection.release() of one handler run
Hold(acquired, released) == heldConnections' = heldConnections + acquired - released

LoginFaults == {"none", "json", "select", "update"}

\* POST /api/auth/login
Login(phone, password, fault) ==
    /\ heldConnections < PoolSize
    /\ LET handler == "POST /api/auth/login"
           inputPhone == normalizePhone(phone)
           found == { u \in Users : normalizePhone(UserPhones[u]) = inputPhone }
           user == CHOOSE u \in found : \A v \in found : u <= v
           Leak(status) == /\ joinOut' = JoinResponse(handler, status, 1, 0)
                           /\ Hold(1, 0)
                           /\ UNCHANGED refresh_token
           Answer(status) == /\ joinOut' = JoinResponse(handler, status, 1, 1)
                             /\ Hold(1, 1)
                             /\ UNCHANGED refresh_token
       IN IF fault = "json" THEN Leak(500)
          ELSE IF phone = NoPhone \/ password = "" THEN Answer(400)
          ELSE IF fault = "select" THEN Leak(500)
          ELSE IF found = {} THEN Answer(401)
          ELSE IF password # "right" THEN Answer(401)
          ELSE IF fault = "update" THEN Leak(500)
          ELSE /\ refresh_token[user].n < MaxLogins
               /\ refresh_token' = [refresh_token EXCEPT
                                      ![user] = [n |-> @.n + 1, set |-> TRUE]]
               /\ joinOut' = [JoinResponse(handler, 200, 1, 1) EXCEPT
                                !.user = user,
                                !.role = [from |-> "users.authority",
                                          label |-> LegacyAuthority[user]]]
               /\ Hold(1, 1)
    /\ UNCHANGED <<applications, authVars, notifVars, guardVars, raceVars>>

\* body.refreshToken: absent, a number, a string that is not 64
\* hexadecimal characters, a 64-character hexadecimal string that was never
\* issued (user 0), or the n-th token issued to a user
RefreshInputs ==
    { [shape |-> TokenShape("undefined", 0, FALSE), user |-> 0, n |-> 0],
      [shape |-> TokenShape("number", 0, FALSE), user |-> 0, n |-> 0] }
    \cup { [shape |-> TokenShape("string", l, h), user |-> 0, n |-> 0] :
             l \in {0, 63, 64, 65}, h \in BOOLEAN }
    \cup { [shape |-> TokenShape("string", 64, TRUE), user |-> u, n |-> n] :
             u \in Users, n \in 1..MaxLogins }

\* the two checks at the head of the refresh handler
MutRefreshTokenFormatOk(shape) ==
    /\ shape.type \notin {"undefined"}
    /\ ~(shape.type = "string" /\ shape.length = 0)
    /\ shape.type = "string"
    /\ shape.hex

RefreshTokenFormatOk(shape) ==
    /\ shape.type \notin {"undefined"}
    /\ ~(shape.type = "string" /\ shape.length = 0)
    /\ shape.type = "string"
    /\ shape.length = 64
    /\ shape.hex

RefreshFaults == {"none", "select", "resolve", "update"}

\* POST /api/auth/refresh-token
Refresh(refreshToken, expired, fault) ==
    /\ heldConnections < PoolSize
    /\ LET handler == "POST /api/auth/refresh-token"
           users == { u \in Users : /\ refreshToken.user = u
                                    /\ refresh_token[u].set
                                    /\ refresh_token[u].n = refreshToken.n }
           user == CHOOSE u \in users : TRUE
           userAuthorities == getUserAuthorities(user_authorities, user,
                                                 Q(fault, "resolve"), "ok")
           select == Stmt("select", 0)
           update == Stmt("update", 0)
           release == Stmt("release", 0)
           Answer(status, acquired, stmts) ==
               /\ joinOut' = [JoinResponse(handler, status, acquired, acquired)
                                EXCEPT !.refreshToken = refreshToken.shape,
                                       !.stmts = stmts]
               /\ Hold(acquired, acquired)
       IN IF ~RefreshTokenFormatOk(refreshToken.shape)
          THEN Answer(400, 0, <<>>) /\ UNCHANGED refresh_token
          ELSE IF fault = "select"
          THEN Answer(500, 1, <<select, release>>) /\ UNCHANGED refresh_token
          ELSE IF users = {}
          THEN /\ Answer(401, 1, <<select, release, select>>)
               /\ UNCHANGED refresh_token
          ELSE IF expired
          THEN /\ Answer(IF fault = "update" THEN 500 ELSE 401, 1,
                         <<select, update, release>>)
               /\ refresh_token' = IF fault = "update" THEN refresh_token
                                   ELSE [refresh_token EXCEPT ![user].set = FALSE]
          ELSE IF fault = "update"
          THEN /\ Answer(500, 1, <<select, select, update, release>>)
               /\ UNCHANGED refresh_token
          ELSE /\ refresh_token[user].n < MaxLogins
               /\ refresh_token' = [refresh_token EXCEPT
                                      ![user] = [n |-> @.n + 1, set |-> TRUE]]
               /\ joinOut' = [JoinResponse(handler, 200, 1, 1) EXCEPT
                                !.user = user,
                                !.role = [from |-> "resolved",
                                          label |-> roleForJWT(userAuthorities)],
                                !.refreshToken = refreshToken.shape,
                                !.stmts = <<select, select, update, release>>]
               /\ Hold(1, 1)
    /\ UNCHANGED <<applications, authVars, notifVars, guardVars, raceVars>>

CheckFaults == {"none", "json", "select"}

\* POST /api/join/check-phone
CheckPhone(phone, fault) ==
    /\ heldConnections < PoolSize
    /\ LET handler == "POST /api/join/check-phone"
           cleanPhone == normalizePhone(phone)
           rows == { u \in Users : \/ ReplaceDash(UserPhones[u]) = cleanPhone
                                   \/ UserPhones[u] = cleanPhone }
       IN IF fault = "json"
          THEN /\ joinOut' = JoinResponse(handler, 500, 0, 0)
               /\ Hold(0, 0)
          ELSE IF fault = "select"
          THEN /\ joinOut' = JoinResponse(handler, 500, 1, 0)
               /\ Hold(1, 0)
          ELSE IF rows # {}
          THEN /\ joinOut' = JoinResponse(handler, 400, 1, 0)
               /\ Hold(1, 0)
          ELSE /\ joinOut' = JoinResponse(handler, 200, 1, 0)
               /\ Hold(1, 0)
    /\ UNCHANGED <<applications, refresh_token, authVars, notifVars, guardVars, raceVars>>

JoinFaults == {"none", "json", "select", "insert"}

\* POST /api/join/new-join
NewJoin(phone, fieldsOk, fault) ==
    /\ heldConnections < PoolSize
    /\ LET handler == "POST /api/join/new-join"
           cleanPhone == normalizePhone(phone)
           existingUser == { a \in applications : \/ ReplaceDash(a) = cleanPhone
                                                  \/ a = cleanPhone }
           Leak(status) == /\ joinOut' = JoinResponse(handler, status, 1, 0)
                           /\ Hold(1, 0)
                           /\ UNCHANGED applications
       IN IF fault = "json" THEN Leak(500)
          ELSE IF phone = NoPhone \/ ~fieldsOk THEN Leak(400)
          ELSE IF fault = "select" THEN Leak(500)
          ELSE IF existingUser # {} THEN Leak(400)
          ELSE IF fault = "insert" THEN Leak(500)
          ELSE /\ applications' = applications \cup {phone}
               /\ joinOut' = JoinResponse(handler, 200, 1, 1)
               /\ Hold(1, 1)
    /\ UNCHANGED <<refresh_token, authVars, notifVars, guardVars, raceVars>>

---------------------------------------------------------------------------
(* Routes that authorize by role *)

\* table testimonies: the author of every testimony is user 1
TestimonyAuthor(id) == 1

\* a.name IN ('ADMIN', 'NCMN_STAFF', 'LEADERSHIP', 'BRANCH_DIRECTOR')
AdminNames == {"ADMIN", "NCMN_STAFF", "LEADERSHIP", "BRANCH_DIRECTOR"}

\* SELECT EXISTS(SELECT 1 FROM user_authorities ua JOIN authorities a ON
\* ua.authority_id = a.id WHERE ua.user_id = ? AND a.name IN (...)):
\* the query has no condition on ua.is_active
IsAdmin(rows, userId) ==
    \E ua \in rows : /\ ua.user_id = userId
                     /\ ua.authority_id \in AuthorityIds
                     /\ AuthorityById(ua.authority_id).name \in AdminNames

DeleteFaults == {"none", "select", "delete"}

\* DELETE /api/testimonies/[id], in one transaction
DeleteTestimony(caller, id, fault) ==
    LET row == [kind |-> "testimony", id |-> id]
        isAuthor == TestimonyAuthor(id) = caller
        isAdmin == IsAdmin(user_authorities, caller)
        R(status) == AuthResponse("DELETE /api/testimonies/[id]", caller,
                                  TestimonyAuthor(id), "delete", 0, status,
                                  NullResponse)
    IN /\ IF fault = "select"
          THEN authOut' = R(500) /\ UNCHANGED contents
          ELSE IF row \notin contents
          THEN authOut' = R(404) /\ UNCHANGED contents
          ELSE IF ~isAuthor /\ ~isAdmin
          THEN authOut' = R(403) /\ UNCHANGED contents
          ELSE IF fault = "delete"
          THEN authOut' = R(500) /\ UNCHANGED contents
          ELSE authOut' = R(200) /\ contents' = contents \ {row}
       /\ UNCHANGED <<user_authorities, isFirebaseInitialized, fcm_token,
                      notifications, comment_likes, req, deferred, delivery,
                      poolVars, guardVars, raceVars>>

---------------------------------------------------------------------------
(* Bearer tokens at the head of a handler *)

MaxViews == 2
MaxYears == 2
YearCodes == 1..MaxYears

\* the Authorization header of a request: absent, or "Bearer <token>" with
\* a token that jwt.verify rejects (bad signature or malformed, expired) or
\* accepts with payload id
Bearers ==
    { [kind |-> k, id |-> 0] : k \in {"missing", "invalid", "expired"} }
    \cup { [kind |-> "valid", id |-> u] : u \in Users }

\* the decoded payload id, or 0 for null
verifyJwt(token) == IF token.kind = "valid" THEN token.id ELSE 0

\* !token || !verifyJwt(token)
Unauthenticated(token) == token.kind = "missing" \/ verifyJwt(token) = 0

GuardResponse(handler, bearer, status) ==
    [handler |-> handler, bearer |-> bearer, status |-> status]

NoGuardResponse == GuardResponse("none", [kind |-> "missing", id |-> 0], 0)

TokenFaults == {"none", "update"}

\* POST /api/notifications/fcm-token
UpdateFcmToken(bearer, token, fault) ==
    LET handler == "POST /api/notifications/fcm-token"
        userId == verifyJwt(bearer)
    IN /\ IF Unauthenticated(bearer)
          THEN /\ guardOut' = GuardResponse(handler, bearer, 401)
               /\ UNCHANGED fcm_token
          ELSE IF token.isNull
          THEN /\ guardOut' = GuardResponse(handler, bearer, 400)
               /\ UNCHANGED fcm_token
          ELSE /\ heldConnections < PoolSize
               /\ IF fault = "update"
                  THEN /\ guardOut' = GuardResponse(handler, bearer, 500)
                       /\ UNCHANGED fcm_token
                  ELSE /\ guardOut' = GuardResponse(handler, bearer, 200)
                       /\ fcm_token' = [fcm_token EXCEPT ![userId] = token]
       /\ UNCHANGED <<isFirebaseInitialized, notifications, contents,
                      comment_likes, req, deferred, delivery, view_count,
                      academic_years, tokenValidation, authVars, poolVars, raceVars>>

\* the [id] segment of the path: 0 for one that Number() turns into 0 or
\* NaN, a user id, or an id that names no user
PathIds == 0..(NumUsers + 1)

\* PATCH /api/users/[id]/fcm-token
PatchUserFcmToken(bearer, id, token, fault) ==
    LET handler == "PATCH /api/users/[id]/fcm-token"
        userId == id
    IN /\ IF bearer.kind = "missing" \/ verifyJwt(bearer) = 0
          THEN /\ guardOut' = GuardResponse(handler, bearer, 401)
               /\ UNCHANGED fcm_token
          ELSE IF userId = 0 \/ token.isNull
          THEN /\ guardOut' = GuardResponse(handler, bearer, 400)
               /\ UNCHANGED fcm_token
          ELSE /\ heldConnections < PoolSize
               /\ IF fault = "update"
                  THEN /\ guardOut' = GuardResponse(handler, bearer, 500)
                       /\ UNCHANGED fcm_token
                  ELSE /\ guardOut' = GuardResponse(handler, bearer, 200)
                       /\ fcm_token' = [u \in Users |->
                                           IF u = userId THEN token
                                           ELSE fcm_token[u]]
       /\ UNCHANGED <<isFirebaseInitialized, notifications, contents,
                      comment_likes, req, deferred, delivery, view_count,
                      academic_years, tokenValidation, authVars, poolVars, raceVars>>

DetailFaults == {"none", "update", "select"}

\* GET /api/testimonies/[id]: the bearer is optional and only decides
\* is_liked; the view counter is raised before the row is looked up
GetTestimony(bearer, id, fault) ==
    LET handler == "GET /api/testimonies/[id]"
        exists == [kind |-> "testimony", id |-> id] \in contents
    IN /\ heldConnections < PoolSize
       /\ IF fault = "update"
          THEN /\ guardOut' = GuardResponse(handler, bearer, 500)
               /\ Hold(1, 0)
               /\ UNCHANGED view_count
          ELSE /\ view_count[id] < MaxViews
               /\ view_count' = IF exists
                                THEN [view_count EXCEPT ![id] = @ + 1]
                                ELSE view_count
               /\ IF fault = "select"
                  THEN /\ guardOut' = GuardResponse(handler, bearer, 500)
                       /\ Hold(1, 0)
                  ELSE /\ guardOut' = GuardResponse(handler, bearer,
                                                    IF exists THEN 200 ELSE 404)
                       /\ Hold(1, 1)
       /\ UNCHANGED <<applications, refresh_token, joinOut, academic_years,
                      tokenValidation, authVars, notifVars, raceVars>>

YearFaults == {"none", "select", "insert"}

\* POST /api/academic-years: the handler reads no Authorization header
PostAcademicYear(bearer, year_code, fieldsOk, fault) ==
    LET handler == "POST /api/academic-years"
    IN /\ IF ~fieldsOk
          THEN /\ guardOut' = GuardResponse(handler, bearer, 400)
               /\ UNCHANGED <<academic_years, heldConnections>>
          ELSE /\ heldConnections < PoolSize
               /\ IF fault = "select"
                  THEN /\ guardOut' = GuardResponse(handler, bearer, 500)
                       /\ Hold(1, 0)
                       /\ UNCHANGED academic_years
                  ELSE IF year_code \in academic_years
                  THEN /\ guardOut' = GuardResponse(handler, bearer, 400)
                       /\ Hold(1, 1)
                       /\ UNCHANGED academic_years
                  ELSE IF fault = "insert"
                  THEN /\ guardOut' = GuardResponse(handler, bearer, 500)
                       /\ Hold(1, 0)
                       /\ UNCHANGED academic_years
                  ELSE /\ guardOut' = GuardResponse(handler, bearer, 200)
                       /\ academic_years' = academic_years \cup {year_code}
                       /\ Hold(1, 1)
       /\ UNCHANGED <<applications, refresh_token, joinOut, view_count,
                      tokenValidation, authVars, notifVars, raceVars>>

---------------------------------------------------------------------------
(* Requests that run at the same time.  A handler is cut at its awaits:   *)
(* one action per statement, so that the statements of two requests        *)
(* interleave as the event loop and the database allow.                    *)

MaxRequests == 2
Requests == 1..MaxRequests

IdleProc == [pc |-> "idle"]

\* the table email_verification_codes for one email address: its rows and
\* the id the next INSERT gets
NoCodes == [rows |-> {}, auto_increment |-> 1]

\* the request p may start: it is not between two of its statements
Free(p) == procs[p].pc \in {"idle", "done"}

MaxRefreshes == 3

\* well-formed refresh tokens: the n-th token stored for user u
IssuedTokens == { [user |-> u, n |-> n] : u \in Users, n \in 1..MaxRefreshes }

\* POST /api/auth/refresh-token, up to pool.getConnection()
RefreshBegin(p, refreshToken) ==
    /\ Free(p)
    /\ heldConnections < PoolSize
    /\ procs' = [procs EXCEPT ![p] = [pc |-> "select", refreshToken |-> refreshToken,
                                      user |-> 0, status |-> 0, issued |-> 0]]
    /\ Hold(1, 0)
    /\ UNCHANGED <<applications, refresh_token, joinOut, user_team_roles,
                   notice_likes, like_count, email_verification_codes,
                   authVars, notifVars, guardVars>>

\* SELECT id, authority, refresh_token_expires_at FROM users WHERE
\* refresh_token = ?
RefreshSelect(p) ==
    /\ procs[p].pc = "select"
    /\ LET t == procs[p].refreshToken
           users == { u \in Users : /\ t.user = u
                                    /\ refresh_token[u].set
                                    /\ refresh_token[u].n = t.n }
       IN IF users = {}
          THEN /\ procs' = [procs EXCEPT ![p].pc = "done", ![p].status = 401]
               /\ Hold(0, 1)
          ELSE /\ procs' = [procs EXCEPT ![p].pc = "update",
                                         ![p].user = CHOOSE u \in users : TRUE]
               /\ UNCHANGED heldConnections
    /\ UNCHANGED <<applications, refresh_token, joinOut, user_team_roles,
                   notice_likes, like_count, email_verification_codes,
                   authVars, notifVars, guardVars>>

\* UPDATE users SET refresh_token = ?, refresh_token_expires_at = ? WHERE
\* id = ? with a token generateRefreshToken() made, then the 200 answer
RefreshUpdate(p) ==
    /\ procs[p].pc = "update"
    /\ LET user == procs[p].user
       IN /\ refresh_token[user].n < MaxRefreshes
          /\ refresh_token' = [refresh_token EXCEPT
                                 ![user] = [n |-> @.n + 1, set |-> TRUE]]
          /\ procs' = [procs EXCEPT ![p].pc = "done", ![p].status = 200,
                                    ![p].issued = refresh_token[user].n + 1]
    /\ Hold(0, 1)
    /\ UNCHANGED <<applications, joinOut, user_team_roles, notice_likes,
                   like_count, email_verification_codes, authVars, notifVars,
                   guardVars>>

\* the three team roles; "leader" stands for the role the code spells
\* '팀장', "deputy" for '부팀장', "member" for '팀원'
TeamRoles == {"leader", "deputy", "member"}
MaxTeamRows == 3

TeamRow(userId, role) == [user_id |-> userId, role |-> role]

TeamUnchanged ==
    UNCHANGED <<refresh_token, applications, joinOut, notice_likes, like_count,
                email_verification_codes, authVars, notifVars, guardVars>>

\* POST /api/team/[teamId]/members, up to pool.getConnection(); the team
\* and the user exist
AddMemberBegin(p, userId, role) ==
    /\ Free(p)
    /\ heldConnections < PoolSize
    /\ procs' = [procs EXCEPT ![p] = [pc |-> "leaders", handler |-> "POST",
                                      userId |-> userId, role |-> role,
                                      status |-> 0]]
    /\ Hold(1, 0)
    /\ UNCHANGED user_team_roles
    /\ TeamUnchanged

\* SELECT * FROM user_team_roles WHERE team_id = ? AND role = '팀장', issued
\* only when the new role is that one
AddMemberSelectLeaders(p) ==
    /\ procs[p].pc = "leaders" /\ procs[p].handler = "POST"
    /\ IF /\ procs[p].role = "leader"
          /\ \E r \in user_team_roles : r.role = "leader"
       THEN /\ procs' = [procs EXCEPT ![p].pc = "done", ![p].status = 400]
            /\ Hold(0, 1)
       ELSE /\ procs' = [procs EXCEPT ![p].pc = "existing"]
            /\ UNCHANGED heldConnections
    /\ UNCHANGED user_team_roles
    /\ TeamUnchanged

\* SELECT * FROM user_team_roles WHERE team_id = ? AND user_id = ?
AddMemberSelectExisting(p) ==
    /\ procs[p].pc = "existing" /\ procs[p].handler = "POST"
    /\ IF \E r \in user_team_roles : r.user_id = procs[p].userId
       THEN /\ procs' = [procs EXCEPT ![p].pc = "done", ![p].status = 400]
            /\ Hold(0, 1)
       ELSE /\ procs' = [procs EXCEPT ![p].pc = "insert"]
            /\ UNCHANGED heldConnections
    /\ UNCHANGED user_team_roles
    /\ TeamUnchanged

\* INSERT INTO user_team_roles (user_id, team_id, role) VALUES (?, ?, ?)
AddMemberInsert(p) ==
    /\ procs[p].pc = "insert" /\ procs[p].handler = "POST"
    /\ Cardinality(user_team_roles) < MaxTeamRows
    /\ user_team_roles' = user_team_roles
                             \cup {TeamRow(procs[p].userId, procs[p].role)}
    /\ procs' = [procs EXCEPT ![p].pc = "done", ![p].status = 200]
    /\ Hold(0, 1)
    /\ TeamUnchanged

\* PATCH /api/team/[teamId]/members: the statements of its transaction,
\* taken as one step
ChangeMemberRole(p, userId, role) ==
    /\ Free(p)
    /\ heldConnections < PoolSize
    /\ LET isMember == \E r \in user_team_roles : r.user_id = userId
           demoted == { IF r.role = "leader" /\ r.user_id # userId
                        THEN [r EXCEPT !.role = "deputy"] ELSE r :
                        r \in user_team_roles }
           before == IF role = "leader" THEN demoted ELSE user_team_roles
       IN IF ~isMember
          THEN /\ procs' = [procs EXCEPT ![p] = [pc |-> "done", handler |-> "PATCH",
                                                 userId |-> userId, role |-> role,
                                                 status |-> 404]]
               /\ UNCHANGED user_team_roles
          ELSE /\ procs' = [procs EXCEPT ![p] = [pc |-> "done", handler |-> "PATCH",
                                                 userId |-> userId, role |-> role,
                                                 status |-> 200]]
               /\ user_team_roles' = { IF r.user_id = userId
                                       THEN [r EXCEPT !.role = role] ELSE r :
                                       r \in before }
    /\ Hold(1, 1)
    /\ TeamUnchanged

\* DELETE /api/team/[teamId]/members, up to pool.getConnection()
RemoveMemberBegin(p, userId) ==
    /\ Free(p)
    /\ heldConnections < PoolSize
    /\ procs' = [procs EXCEPT ![p] = [pc |-> "member", handler |-> "DELETE",
                                      userId |-> userId, role |-> "none",
                                      status |-> 0]]
    /\ Hold(1, 0)
    /\ UNCHANGED user_team_roles
    /\ TeamUnchanged

\* the member lookup and, for a leader, the lookup of the other members:
\* a leader is removed only when nobody else is in the team
RemoveMemberSelect(p) ==
    /\ procs[p].pc = "member" /\ procs[p].handler = "DELETE"
    /\ LET mine == { r \in user_team_roles : r.user_id = procs[p].userId }
           member == CHOOSE r \in mine : TRUE
           others == { r \in user_team_roles : r.user_id # procs[p].userId }
       IN IF mine = {}
          THEN /\ procs' = [procs EXCEPT ![p].pc = "done", ![p].status = 404]
               /\ Hold(0, 1)
          ELSE IF member.role = "leader" /\ others # {}
          THEN /\ procs' = [procs EXCEPT ![p].pc = "done", ![p].status = 400]
               /\ Hold(0, 1)
          ELSE /\ procs' = [procs EXCEPT ![p].pc = "delete"]
               /\ UNCHANGED heldConnections
    /\ UNCHANGED user_team_roles
    /\ TeamUnchanged

\* DELETE FROM user_team_roles WHERE team_id = ? AND user_id = ?
RemoveMemberDelete(p) ==
    /\ procs[p].pc = "delete" /\ procs[p].handler = "DELETE"
    /\ user_team_roles' = { r \in user_team_roles : r.user_id # procs[p].userId }
    /\ procs' = [procs EXCEPT ![p].pc = "done", ![p].status = 200]
    /\ Hold(0, 1)
    /\ TeamUnchanged

LikeUnchanged ==
    UNCHANGED <<refresh_token, applications, joinOut, user_team_roles,
                email_verification_codes, authVars, notifVars, guardVars>>

GREATEST(a, b) == IF a >= b THEN a ELSE b

\* the like-row of this user is written by another transaction that has
\* not committed yet: a second writer of the row waits for it
LikeRowLocked(p) ==
    \E q \in Requests : /\ q # p
                        /\ procs[q].pc = "count"
                        /\ procs[q].userId = procs[p].userId

\* POST /api/notices/[id]/like by an authenticated user, on a notice that
\* exists: getConnection, beginTransaction and the notice lookup
ToggleLikeBegin(p, userId) ==
    /\ Free(p)
    /\ heldConnections < PoolSize
    /\ procs' = [procs EXCEPT ![p] = [pc |-> "liked", handler |-> "like",
                                      userId |-> userId, isLiked |-> FALSE,
                                      affectedRows |-> 0, status |-> 0]]
    /\ Hold(1, 0)
    /\ UNCHANGED <<notice_likes, like_count>>
    /\ LikeUnchanged

\* SELECT id FROM notice_likes WHERE notice_id = ? AND user_id = ?, a
\* consistent read of what has been committed
ToggleLikeSelect(p) ==
    /\ procs[p].pc = "liked" /\ procs[p].handler = "like"
    /\ procs' = [procs EXCEPT ![p].pc = "row",
                              ![p].isLiked = procs[p].userId \in notice_likes]
    /\ UNCHANGED <<notice_likes, like_count, heldConnections>>
    /\ LikeUnchanged

\* DELETE FROM notice_likes ... or INSERT INTO notice_likes ..., by isLiked;
\* the statement works on the current row: the DELETE of a row that is gone
\* affects nothing, the INSERT of a row that is there fails on the
\* (notice_id, user_id) key and the catch block rolls back
ToggleLikeWriteRow(p) ==
    /\ procs[p].pc = "row" /\ procs[p].handler = "like"
    /\ ~LikeRowLocked(p)
    /\ LET present == procs[p].userId \in notice_likes
       IN IF ~procs[p].isLiked /\ present
          THEN /\ procs' = [procs EXCEPT ![p].pc = "done", ![p].status = 500]
               /\ Hold(0, 1)
          ELSE /\ procs' = [procs EXCEPT ![p].pc = "count",
                                         ![p].affectedRows =
                                             IF present \/ ~procs[p].isLiked
                                             THEN 1 ELSE 0]
               /\ UNCHANGED heldConnections
    /\ UNCHANGED <<notice_likes, like_count>>
    /\ LikeUnchanged

\* UPDATE notices SET like_count = ..., the final SELECT and the commit,
\* which publishes the row change and the new count together
ToggleLikeCommit(p) ==
    /\ procs[p].pc = "count" /\ procs[p].handler = "like"
    /\ IF procs[p].isLiked
       THEN /\ notice_likes' = notice_likes \ {procs[p].userId}
            /\ like_count' = GREATEST(like_count - 1, 0)
       ELSE /\ notice_likes' = notice_likes \cup {procs[p].userId}
            /\ like_count' = like_count + 1
    /\ procs' = [procs EXCEPT ![p].pc = "done", ![p].status = 200]
    /\ Hold(0, 1)
    /\ LikeUnchanged

MaxSends == 3
MaxCodes == 2
\* the values generateVerificationCode can return
Codes == 1..MaxCodes

CodeUnchanged ==
    UNCHANGED <<refresh_token, applications, joinOut, user_team_roles,
                notice_likes, like_count, authVars, notifVars, guardVars>>

\* POST /api/auth/send-email-code: the code is generated and mailed, then
\* the connection is taken
SendCodeBegin(p, code) ==
    /\ Free(p)
    /\ heldConnections < PoolSize
    /\ email_verification_codes.auto_increment <= MaxSends
    /\ procs' = [procs EXCEPT ![p] = [pc |-> "delete", handler |-> "send",
                                      code |-> code, status |-> 0]]
    /\ Hold(1, 0)
    /\ UNCHANGED email_verification_codes
    /\ CodeUnchanged

\* DELETE FROM email_verification_codes WHERE email = ?
SendCodeDelete(p) ==
    /\ procs[p].pc = "delete" /\ procs[p].handler = "send"
    /\ email_verification_codes' = [email_verification_codes EXCEPT !.rows = {}]
    /\ procs' = [procs EXCEPT ![p].pc = "insert"]
    /\ UNCHANGED heldConnections
    /\ CodeUnchanged

\* INSERT INTO email_verification_codes (email, code, expires_at) ...
SendCodeInsert(p) ==
    /\ procs[p].pc = "insert" /\ procs[p].handler = "send"
    /\ email_verification_codes.auto_increment <= MaxSends
    /\ email_verification_codes' =
          [rows |-> email_verification_codes.rows
                       \cup {[id |-> email_verification_codes.auto_increment,
                              code |-> procs[p].code]},
           auto_increment |-> email_verification_codes.auto_increment + 1]
    /\ procs' = [procs EXCEPT ![p].pc = "done", ![p].status = 200]
    /\ Hold(0, 1)
    /\ CodeUnchanged

NoCodeRow == [id |-> 0, code |-> 0]

\* POST /api/auth/verify-email-code with an email and a code, up to
\* pool.getConnection(); expired tells whether the row it finds is past
\* its expires_at
VerifyCodeBegin(p, code, expired) ==
    /\ Free(p)
    /\ heldConnections < PoolSize
    /\ procs' = [procs EXCEPT ![p] = [pc |-> "select", handler |-> "verify",
                                      code |-> code, expired |-> expired,
                                      record |-> NoCodeRow, newer |-> FALSE,
                                      ok |-> FALSE, status |-> 0]]
    /\ Hold(1, 0)
    /\ UNCHANGED email_verification_codes
    /\ CodeUnchanged

\* SELECT * FROM email_verification_codes WHERE email = ? AND code = ?, of
\* which the first row is taken; newer records whether a later code had
\* been stored by then
VerifyCodeSelect(p) ==
    /\ procs[p].pc = "select" /\ procs[p].handler = "verify"
    /\ LET rows == { r \in email_verification_codes.rows :
                        r.code = procs[p].code }
       IN IF rows = {}
          THEN /\ procs' = [procs EXCEPT ![p].pc = "done", ![p].status = 400]
               /\ Hold(0, 1)
          ELSE /\ \E record \in rows :
                     procs' = [procs EXCEPT
                                 ![p].pc = "remove",
                                 ![p].record = record,
                                 ![p].newer =
                                     record.id + 1 <
                                        email_verification_codes.auto_increment]
               /\ UNCHANGED heldConnections
    /\ UNCHANGED email_verification_codes
    /\ CodeUnchanged

\* DELETE FROM email_verification_codes WHERE id = ?, after which an
\* expired code is answered 400 and any other { ok: true }
VerifyCodeDelete(p) ==
    /\ procs[p].pc = "remove" /\ procs[p].handler = "verify"
    /\ email_verification_codes' =
          [email_verification_codes EXCEPT
              !.rows = { r \in @ : r.id # procs[p].record.id }]
    /\ procs' = [procs EXCEPT ![p].pc = "done",
                              ![p].ok = ~procs[p].expired,
                              ![p].status = IF procs[p].expired THEN 400 ELSE 200]
    /\ Hold(0, 1)
    /\ CodeUnchanged

---------------------------------------------------------------------------
(* Initial state: the database after registration of the users, before    *)
(* any authority was assigned, any content was created or any connection  *)
(* was taken from the pool.                                               *)

NoAuthResponse == AuthResponse("none", 0, 0, "none", 0, 0, NullResponse)

InitNotif ==
    /\ isFirebaseInitialized \in BOOLEAN
    /\ fcm_token \in { f \in [Users -> UNION { TokenChoices(u) : u \in Users }] :
                         \A u \in Users : f[u] \in TokenChoices(u) }
    /\ notifications = {}
    /\ contents = {}
    /\ comment_likes = {}
    /\ req = NoRequest
    /\ deferred = <<>>
    /\ delivery = NoDelivery

\* the notification side at rest, for the specifications of the other parts
QuietNotif ==
    /\ isFirebaseInitialized = TRUE
    /\ fcm_token = [u \in Users |-> NullToken]
    /\ notifications = {}
    /\ contents = {}
    /\ comment_likes = {}
    /\ req = NoRequest
    /\ deferred = <<>>
    /\ delivery = NoDelivery

NoJoinResponse == JoinResponse("none", 0, 0, 0)

InitPool ==
    /\ heldConnections = 0
    /\ applications = {}
    /\ refresh_token = [u \in Users |-> NoRefreshToken]
    /\ joinOut = NoJoinResponse

InitGuard ==
    /\ view_count = [id \in 1..MaxContents |-> 0]
    /\ academic_years = {}
    /\ guardOut = NoGuardResponse
    /\ tokenValidation = NoValidation

\* no request in flight and the tables of the interleaving specifications
\* empty, for the specifications of the other parts
QuietRace ==
    /\ procs = <<>>
    /\ user_team_roles = {}
    /\ notice_likes = {}
    /\ like_count = 0
    /\ email_verification_codes = NoCodes

InitAuth ==
    /\ user_authorities = {}
    /\ authOut = NoAuthResponse

\* request bodies: a well-formed add / remove with any single fault, a body
\* without authorityId, and a body with an action that is neither
ChangeRequests ==
    { <<action, authorityId, fault>> :
        action \in {"add", "remove"}, authorityId \in AuthorityIds,
        fault \in ServiceFaults }
    \cup { <<"add", 0, "none">>, <<"promote", 1, "none">> }

NextAuth ==
    \/ \E caller \in Users, r \in ChangeRequests :
          /\ r[3] \notin {"target"}
          /\ PutMe(caller, r[1], r[2], r[3])
    \/ \E caller \in Users, target \in RequestUserIds, r \in ChangeRequests :
          PostAuthorities(caller, target, r[1], r[2], r[3])
    \/ \E n \in 1..MaxUpdates : \E updates \in [1..n -> UpdateInputs],
          fault \in BulkFaults :
          PatchUsers(updates, fault)

\* the authority service and its three handlers
InitAuthSpec == InitAuth /\ QuietNotif /\ InitPool /\ InitGuard /\ QuietRace

SpecAuth == InitAuthSpec /\ [][NextAuth]_vars

\* users change their own authorities and delete testimonies
NextRole ==
    \/ \E caller \in Users, r \in ChangeRequests :
          /\ r[3] \notin {"target"}
          /\ PutMe(caller, r[1], r[2], r[3])
    \/ \E caller \in Users, id \in 1..MaxContents, fault \in DeleteFaults :
          DeleteTestimony(caller, id, fault)

\* the testimonies 1..MaxContents are stored, no authority is assigned
InitRoleSpec ==
    /\ InitAuth /\ InitPool /\ InitGuard /\ QuietRace
    /\ isFirebaseInitialized = TRUE
    /\ fcm_token = [u \in Users |-> NullToken]
    /\ notifications = {}
    /\ contents = { [kind |-> "testimony", id |-> id] : id \in 1..MaxContents }
    /\ comment_likes = {}
    /\ req = NoRequest
    /\ deferred = <<>>
    /\ delivery = NoDelivery

SpecRole == InitRoleSpec /\ [][NextRole]_vars

\* request inputs of the notification handlers: one fault at most, and
\* none in a request that is rejected before its first statement
DirectTypes == {"like", "event"}
RelatedTypes == {"notice", "testimony", "event"}
RelatedIds == 1..MaxContents
NotificationIds == 1..MaxInboxRows
DirectFaults == {"none", "insert", "count", "send"}
LikeFaults == {"none", "primary", "insert"}

ContentRequests ==
    { <<TRUE, fault, faultUser>> : fault \in FanoutFaults \ {"none"},
                                   faultUser \in Users }
    \cup { <<TRUE, "none", 1>>, <<FALSE, "none", 1>> }

\* content creation with its fan-out and push delivery
NextFanout ==
    \/ \E author \in Users, r \in ContentRequests :
          PostNotice(author, r[1], r[2], r[3])
    \/ \E author \in Users, r \in ContentRequests :
          PostTestimony(author, r[1], r[2], r[3])
    \/ \E author \in Users, r \in ContentRequests :
          PostEvent(author, r[1], r[2], r[3])
    \/ RunDeferred

InitFanoutSpec == InitNotif /\ InitAuth /\ InitPool /\ InitGuard /\ QuietRace

SpecFanout == InitFanoutSpec /\ [][NextFanout]_vars

\* single-recipient notifications and the read-state handlers
NextInbox ==
    \/ \E actor \in Users, recipient_id \in RecipientInputs, type \in DirectTypes,
          fault \in DirectFaults :
          /\ type \notin validTypes => fault = "none"
          /\ PostNotification(actor, recipient_id, type, 1, fault)
    \/ \E actor \in Users, commentId \in 1..2, fault \in LikeFaults :
          /\ commentId \notin CommentIds => fault = "none"
          /\ CommentLike(actor, commentId, fault)
    \/ RunDeferred
    \/ \E actor \in Users, id \in NotificationIds, fault \in ReadFaults :
          MarkRead(actor, id, fault)
    \/ \E actor \in Users, fault \in ReadFaults : MarkAllRead(actor, fault)
    \/ \E actor \in Users, fault \in ReadFaults : GetUnreadCount(actor, fault)
    \/ \E actor \in Users, type \in RelatedTypes, relatedId \in RelatedIds,
          fault \in ReadFaults :
          /\ type \notin relatedTypes => fault = "none"
          /\ MarkRelatedRead(actor, type, relatedId, fault)

\* user 1 has registered no device, every other user has
InitInbox ==
    /\ isFirebaseInitialized \in BOOLEAN
    /\ fcm_token = [u \in Users |-> IF u = 1 THEN NullToken
                                    ELSE Token(DeviceTexts[u], 150, TRUE)]
    /\ notifications = {}
    /\ contents = {}
    /\ comment_likes = {}
    /\ req = NoRequest
    /\ deferred = <<>>
    /\ delivery = NoDelivery

InitInboxSpec == InitInbox /\ InitAuth /\ InitPool /\ InitGuard /\ QuietRace

SpecInbox == InitInboxSpec /\ [][NextInbox]_vars

\* the handlers that take a connection from the pool and may keep it
NextPool ==
    \/ \E phone \in PhoneInputs, password \in Passwords, fault \in LoginFaults :
          Login(phone, password, fault)
    \/ \E phone \in PhoneInputs, fault \in CheckFaults : CheckPhone(phone, fault)
    \/ \E refreshToken \in RefreshInputs, expired \in BOOLEAN,
          fault \in RefreshFaults :
          Refresh(refreshToken, expired, fault)
    \/ \E phone \in PhoneInputs, fieldsOk \in BOOLEAN, fault \in JoinFaults :
          NewJoin(phone, fieldsOk, fault)

InitPoolSpec == InitPool /\ InitAuth /\ QuietNotif /\ InitGuard /\ QuietRace

SpecPool == InitPoolSpec /\ [][NextPool]_vars

\* refresh requests in flight together
NextRefreshRace ==
    \/ \E p \in Requests, refreshToken \in IssuedTokens :
          RefreshBegin(p, refreshToken)
    \/ \E p \in Requests : RefreshSelect(p)
    \/ \E p \in Requests : RefreshUpdate(p)

\* every user has logged in once
InitRefreshRace ==
    /\ InitAuth /\ QuietNotif /\ InitGuard
    /\ heldConnections = 0
    /\ applications = {}
    /\ refresh_token = [u \in Users |-> [n |-> 1, set |-> TRUE]]
    /\ joinOut = NoJoinResponse
    /\ procs = [p \in Requests |-> IdleProc]
    /\ user_team_roles = {}
    /\ notice_likes = {}
    /\ like_count = 0
    /\ email_verification_codes = NoCodes

SpecRefreshRace == InitRefreshRace /\ [][NextRefreshRace]_vars

\* member requests on one team in flight together
NextTeamRace ==
    \/ \E p \in Requests, userId \in Users, role \in TeamRoles :
          AddMemberBegin(p, userId, role)
    \/ \E p \in Requests : AddMemberSelectLeaders(p)
    \/ \E p \in Requests : AddMemberSelectExisting(p)
    \/ \E p \in Requests : AddMemberInsert(p)
    \/ \E p \in Requests, userId \in Users, role \in TeamRoles :
          ChangeMemberRole(p, userId, role)
    \/ \E p \in Requests, userId \in Users : RemoveMemberBegin(p, userId)
    \/ \E p \in Requests : RemoveMemberSelect(p)
    \/ \E p \in Requests : RemoveMemberDelete(p)

\* a team without members
InitTeamRace ==
    /\ InitAuth /\ QuietNotif /\ InitGuard /\ InitPool
    /\ procs = [p \in Requests |-> IdleProc]
    /\ user_team_roles = {}
    /\ notice_likes = {}
    /\ like_count = 0
    /\ email_verification_codes = NoCodes

SpecTeamRace == InitTeamRace /\ [][NextTeamRace]_vars

\* like toggles on one notice in flight together
NextLikeRace ==
    \/ \E p \in Requests, userId \in Users : ToggleLikeBegin(p, userId)
    \/ \E p \in Requests : ToggleLikeSelect(p)
    \/ \E p \in Requests : ToggleLikeWriteRow(p)
    \/ \E p \in Requests : ToggleLikeCommit(p)

\* a notice nobody has liked
InitLikeRace ==
    /\ InitAuth /\ QuietNotif /\ InitGuard /\ InitPool
    /\ procs = [p \in Requests |-> IdleProc]
    /\ user_team_roles = {}
    /\ notice_likes = {}
    /\ like_count = 0
    /\ email_verification_codes = NoCodes

SpecLikeRace == InitLikeRace /\ [][NextLikeRace]_vars

\* send-code and verify requests for one email address in flight together
NextCodeRace ==
    \/ \E p \in Requests, code \in Codes : SendCodeBegin(p, code)
    \/ \E p \in Requests : SendCodeDelete(p)
    \/ \E p \in Requests : SendCodeInsert(p)
    \/ \E p \in Requests, code \in Codes, expired \in BOOLEAN :
          VerifyCodeBegin(p, code, expired)
    \/ \E p \in Requests : VerifyCodeSelect(p)
    \/ \E p \in Requests : VerifyCodeDelete(p)

\* no code has been sent to the address
InitCodeRace ==
    /\ InitAuth /\ QuietNotif /\ InitGuard /\ InitPool
    /\ procs = [p \in Requests |-> IdleProc]
    /\ user_team_roles = {}
    /\ notice_likes = {}
    /\ like_count = 0
    /\ email_verification_codes = NoCodes

SpecCodeRace == InitCodeRace /\ [][NextCodeRace]_vars

\* handlers seen from their Authorization header: one that requires the
\* bearer, one that takes it as optional, one that never reads it
NextGuard ==
    \/ \E bearer \in Bearers, u \in Users, fault \in TokenFaults :
          \E token \in TokenChoices(u) :
             /\ verifyJwt(bearer) \in {0, u}
             /\ UpdateFcmToken(bearer, token, fault)
    \/ \E bearer \in Bearers, id \in 1..MaxContents, fault \in DetailFaults :
          GetTestimony(bearer, id, fault)
    \/ \E bearer \in Bearers, year_code \in YearCodes, fieldsOk \in BOOLEAN,
          fault \in YearFaults :
          PostAcademicYear(bearer, year_code, fieldsOk, fault)

\* one testimony is stored; the other ids name no row
InitGuardSpec ==
    /\ InitAuth /\ InitPool /\ InitGuard /\ QuietRace
    /\ isFirebaseInitialized = TRUE
    /\ fcm_token = [u \in Users |-> NullToken]
    /\ notifications = {}
    /\ contents = { [kind |-> "testimony", id |-> 1] }
    /\ comment_likes = {}
    /\ req = NoRequest
    /\ deferred = <<>>
    /\ delivery = NoDelivery

SpecGuard == InitGuardSpec /\ [][NextGuard]_vars

\* the two routes that store a push token
NextPushToken ==
    \/ \E bearer \in Bearers, u \in Users, fault \in TokenFaults :
          \E token \in TokenChoices(u) :
             /\ verifyJwt(bearer) \in {0, u}
             /\ UpdateFcmToken(bearer, token, fault)
    \/ \E bearer \in Bearers, id \in PathIds, u \in Users,
          fault \in TokenFaults :
          \E token \in TokenChoices(u) :
             /\ verifyJwt(bearer) \in {0, u}
             /\ PatchUserFcmToken(bearer, id, token, fault)

SpecPushToken == InitGuardSpec /\ [][NextPushToken]_vars

\* the token validity check over token strings
NextToken == \E input \in TokenInputs : ValidateToken(input)

InitTokenSpec == InitAuth /\ InitPool /\ InitGuard /\ QuietRace /\ QuietNotif

SpecToken == InitTokenSpec /\ [][NextToken]_vars

---------------------------------------------------------------------------
(* Claims about the authority service *)

\* number of entries of a sequence of authorities with the given id
RECURSIVE CountId(_, _)
CountId(auths, aid) ==
    IF auths = <<>> THEN 0
    ELSE (IF Head(auths).id = aid THEN 1 ELSE 0) + CountId(Tail(auths), aid)

ActiveIds(userId) ==
    { r.authority_id : r \in { x \in user_authorities :
                                 x.user_id = userId /\ x.is_active } }

\* C1: in every state reached by add, remove and bulk replacement, resolve of
\* every existing user yields a non-empty authority list (the user's active
\* assignments, or the single default LEADER role when there are none), and
\* highestAuthorityLevel is the least level in that list.
C1_ResolveNonEmptyMinLevel ==
    \A u \in Users :
        LET r == Resolve(u)
            ids == { r.authorities[i].id : i \in 1..Len(r.authorities) }
        IN /\ r.found
           /\ Len(r.authorities) >= 1
           /\ IF ActiveIds(u) # {} THEN ids = ActiveIds(u)
              ELSE Len(r.authorities) = 1 /\ r.authorities[1].name = "LEADER"
           /\ \E i \in 1..Len(r.authorities) :
                  r.authorities[i].level = r.highestAuthorityLevel
           /\ \A i \in 1..Len(r.authorities) :
                  r.highestAuthorityLevel <= r.authorities[i].level

\* after a bulk replacement, a user whose assignments were all deactivated
\* resolves to the default while another user resolves to a genuine one
C1_Witness ==
    /\ authOut.handler = "PATCH /api/users" /\ authOut.status = 200
    /\ \E u \in Users :
          /\ \E r \in user_authorities : r.user_id = u
          /\ ActiveIds(u) = {}
          /\ Len(Resolve(u).authorities) = 1
          /\ Resolve(u).highestAuthorityLevel = 6
    /\ \E v \in Users :
          /\ ActiveIds(v) # {}
          /\ Resolve(v).highestAuthorityLevel < 6

\* C2: a handler answers "not found" only for a user that does not exist, and
\* a successful answer of a resolving handler never carries a null or empty
\* role set, whatever the outcome of the queries resolve issues.
C2_NotFoundOnlyForAbsentUser ==
    /\ authOut.status = 404 => authOut.target \notin Users
    /\ (authOut.status = 200 /\ authOut.handler # "PATCH /api/users")
          => /\ authOut.authorities.found
             /\ Len(authOut.authorities.authorities) >= 1

\* C10: after a successful addAuthority(user, authority) the resolved set of
\* that user holds exactly one entry for the authority, in the handler's own
\* re-query as well as in any later resolve, whether the pair was new, already
\* active or inactive before.
C10_AddThenResolveOnce ==
    (authOut.action = "add" /\ authOut.status = 200) =>
        /\ CountId(Resolve(authOut.target).authorities, authOut.authorityId) = 1
        /\ authOut.authorities.found =>
              CountId(authOut.authorities.authorities, authOut.authorityId) = 1

\* an add that succeeded on a pair whose row already existed: a row with a
\* larger id was inserted between the row's creation and this add
C10_Witness ==
    /\ authOut.action = "add" /\ authOut.status = 200
    /\ authOut.authorities.found
    /\ \E r \in user_authorities, later \in user_authorities :
          /\ r.user_id = authOut.target
          /\ r.authority_id = authOut.authorityId
          /\ later.id > r.id

\* the pair has an active row in the table
ActivePair(rows, userId, authorityId) ==
    \E r \in rows : r.user_id = userId /\ r.authority_id = authorityId /\ r.is_active

\* C11: removing an authority from a user who has no active assignment of
\* it returns success and leaves what resolve returns for the user as it
\* was, both for the service call on any table the handlers produce and
\* for every successful remove request of the two handlers.
C11_RemoveUnassignedIsNoOp ==
    [][\A u \in Users, a \in AuthorityIds :
          ~ActivePair(user_authorities, u, a)
             => LET res == removeUserAuthority(user_authorities, u, a, "ok")
                IN /\ res[1]
                   /\ getUserAuthorities(res[2], u, "ok", "ok") = Resolve(u)
                   /\ (authOut'.action = "remove" /\ authOut'.status = 200
                          /\ authOut'.target = u /\ authOut'.authorityId = a)
                        => getUserAuthorities(user_authorities', u, "ok", "ok")
                              = Resolve(u)]_vars

\* C11 witness: a remove request succeeded for a pair that never had a
\* row while the user holds an active assignment of another authority
C11_Witness ==
    /\ authOut.action = "remove"
    /\ authOut.status = 200
    /\ \A r \in user_authorities :
          ~(r.user_id = authOut.target /\ r.authority_id = authOut.authorityId)
    /\ \E r \in user_authorities : r.user_id = authOut.target /\ r.is_active

QueryOutcomes == {"ok", "fail"}

\* C17: for a user id that names no user, resolve returns "not found"
\* (null), whatever the table holds and whatever its queries do, and never
\* a set filled with the default role; the handler that resolves a target
\* answers 404 for such an id.
C17_AbsentUserIsNotFound ==
    /\ \A userId \in RequestUserIds \ Users, qMain \in QueryOutcomes,
          qDefault \in QueryOutcomes :
          LET r == getUserAuthorities(user_authorities, userId, qMain, qDefault)
          IN ~r.found /\ r.authorities = <<>>
    /\ (/\ authOut.handler = "POST /api/authorities"
        /\ authOut.target \notin Users
        /\ authOut.status \notin {400, 403, 500})
          => authOut.status = 404 /\ authOut.authorities = NullResponse

C17_Witness ==
    /\ authOut.handler = "POST /api/authorities"
    /\ authOut.target \notin Users
    /\ authOut.status = 404
    /\ user_authorities # {}

\* C18: an existing user without an active assignment, whether never
\* assigned or with every assignment deactivated, resolves to exactly one
\* authority, the default LEADER role of category MINISTRY, and
\* highestAuthorityLevel is the level of that role.
C18_NoActiveAssignmentGivesLeader ==
    \A u \in Users :
        (\A x \in user_authorities : x.user_id = u => ~x.is_active)
           => LET r == Resolve(u)
              IN /\ r.found
                 /\ Len(r.authorities) = 1
                 /\ r.authorities[1].name = "LEADER"
                 /\ r.authorities[1].category_id = MinistryCategoryId
                 /\ r.highestAuthorityLevel = r.authorities[1].level

\* a removal has just deactivated the only assignment of its target, and the
\* other user was never assigned
C18_Witness ==
    /\ authOut.action = "remove" /\ authOut.status = 200
    /\ authOut.target \in Users
    /\ \E x \in user_authorities : x.user_id = authOut.target
    /\ \A x \in user_authorities : x.user_id = authOut.target => ~x.is_active
    /\ Len(Resolve(authOut.target).authorities) = 1
    /\ \E v \in Users : /\ \A x \in user_authorities : x.user_id # v
                        /\ Resolve(v).highestAuthorityLevel = 6

\* C19: no add, remove or bulk replacement deletes a row of
\* user_authorities: every row is still there after the step, with its
\* user and authority, and at most its is_active flag has changed, so the
\* set of (user, authority) rows never shrinks.
C19_AssignmentRowsNeverDeleted ==
    [][\A r \in user_authorities :
          \E q \in user_authorities' :
             /\ q.id = r.id
             /\ q.user_id = r.user_id
             /\ q.authority_id = r.authority_id]_vars

\* a bulk replacement has deactivated an assignment and kept its row
C19_Witness ==
    /\ authOut.handler = "PATCH /api/users" /\ authOut.status = 200
    /\ \E r \in user_authorities : ~r.is_active
    /\ \E r \in user_authorities : r.is_active

---------------------------------------------------------------------------
(* Claims about the fan-out of content-creation requests *)

BroadcastHandlers == {"POST /api/notices", "POST /api/testimonies", "POST /api/events"}

RECURSIVE SeqToSet(_)
SeqToSet(q) == IF q = <<>> THEN {} ELSE {Head(q)} \cup SeqToSet(Tail(q))

\* C3: a broadcast fan-out in which no statement and no send fails writes a
\* notification row for exactly the recipients whose push token is valid
\* and attempts a delivery to exactly those recipients; a recipient whose
\* token is invalid gets neither a row nor an attempt.
C3_RowsAndAttemptsForValidTokensOnly ==
    /\ (req.handler \in BroadcastHandlers /\ req.status = 200 /\ req.fault = "none")
          => req.rowsFor = req.eligible
    /\ (delivery.ran /\ delivery.handler \in BroadcastHandlers
           /\ delivery.fault = "none")
          => /\ delivery.rowsFor = delivery.eligible
             /\ SeqToSet(delivery.attempts) = delivery.eligible
             /\ Len(delivery.attempts) = Cardinality(delivery.eligible)

\* C5: once the primary write of a content-creation request has committed,
\* the response reports success and the content item is in its table,
\* whatever was thrown by the recipient query, by a notification insert or
\* count, or by a send; the item is still there when the delivery has run.
C5_CommittedContentSurvivesFanout ==
    /\ (req.handler \in BroadcastHandlers /\ req.content # 0)
          => /\ req.status = 200
             /\ req.success
             /\ \E c \in contents : c.id = req.content
    /\ (delivery.ran /\ delivery.handler \in BroadcastHandlers)
          => \E c \in contents : c.id = delivery.content

\* C5 witness: a notice was committed, the insert for one of its recipients
\* threw, and the response is a success with the notice persisted
C5_Witness ==
    /\ req.handler = "POST /api/notices"
    /\ req.fault = "insert"
    /\ req.recipients # {}
    /\ req.rowsFor # req.recipients
    /\ req.status = 200
    /\ [kind |-> "notice", id |-> req.content] \in contents

\* C6: in a content-creation request in which no statement fails, the
\* insert for a recipient is followed at once by the count for the same
\* recipient; no statement for another recipient is issued in between.
C6_InsertThenCountPerRecipient ==
    (req.handler \in BroadcastHandlers /\ req.fault = "none")
       => \A i \in 1..Len(req.stmts) :
             req.stmts[i].op = "insert"
                => /\ i < Len(req.stmts)
                   /\ req.stmts[i + 1] = Stmt("count", req.stmts[i].user)

\* C13: when a delivery batch has run, the tokens collected as invalid are
\* exactly the tokens the provider reported as no longer registered, the
\* stored token is cleared for exactly the users who hold such a token, and
\* nothing is collected or cleared for a send that failed otherwise.
C13_OnlyReportedTokensCleared ==
    (delivery.ran /\ delivery.handler \in BroadcastHandlers)
       => /\ delivery.invalidTokens = delivery.reported
          /\ delivery.cleared =
                { delivery.outcomes[i].user :
                    i \in { k \in 1..Len(delivery.outcomes) :
                              delivery.outcomes[k].token \in delivery.reported } }
          /\ delivery.fault = "send" => delivery.cleared = {}

\* C14: when a delivery batch has run, every item of the batch was handed
\* to the send exactly once and in order, every item other than the one
\* whose send threw has the outcome it has without the error, no item
\* reached the provider twice, and success plus failure is the batch size.
C14_EveryItemSentOnce ==
    delivery.ran
       => /\ Len(delivery.outcomes) = Len(delivery.batch)
          /\ \A i \in 1..Len(delivery.batch) :
                /\ delivery.outcomes[i].user = delivery.batch[i].user
                /\ delivery.outcomes[i].token = delivery.batch[i].token
                /\ delivery.outcomes[i].outcome # "failed"
                     => delivery.outcomes[i] =
                           sendToDevice(delivery.batch[i], "none", 0)
          /\ Cardinality(SeqToSet(delivery.attempts)) = Len(delivery.attempts)
          /\ delivery.success + delivery.failure = Len(delivery.batch)
          /\ delivery.success =
                Cardinality({ i \in 1..Len(delivery.outcomes) :
                                delivery.outcomes[i].outcome = "sent" })

\* C14 witness: in a batch of two the first send threw and the second
\* was delivered
C14_Witness ==
    /\ delivery.ran
    /\ Len(delivery.outcomes) = 2
    /\ delivery.outcomes[1].outcome = "failed"
    /\ delivery.outcomes[2].outcome = "sent"
    /\ delivery.success = 1
    /\ delivery.failure = 1

---------------------------------------------------------------------------
(* Claims about single-recipient notifications and read state *)

CreatingHandlers == BroadcastHandlers \cup {"POST /api/notifications"}

ReadHandlers == {"PATCH /api/notifications/[id]/read",
                 "PATCH /api/notifications/mark-all-read",
                 "POST /api/notifications/mark-related-read"}

\* C4: when the messaging provider is unavailable, a request that created
\* a content item or a notification row answers with success and with a
\* warning, and a delivery callback that runs makes no send attempt.
C4_UnavailableProviderWarns ==
    /\ (~isFirebaseInitialized /\ req.handler \in CreatingHandlers
           /\ req.fault = "none" /\ (req.content # 0 \/ req.rowsFor # {}))
          => (req.status = 200 /\ req.success /\ req.warning)
    /\ (~isFirebaseInitialized /\ delivery.ran) => delivery.attempts = <<>>

\* C8: a step changes an existing notification row only by setting is_read
\* on an unread row, and only in a mark-read request of the row's
\* recipient; no row disappears and no other column changes.
C8_OnlyRecipientMarksRead ==
    [][\A r \in notifications :
          \/ r \in notifications'
          \/ /\ ~r.is_read
             /\ [r EXCEPT !.is_read = TRUE] \in notifications'
             /\ req'.handler \in ReadHandlers
             /\ req'.actor = r.user_id
             /\ req'.status = 200]_vars

\* C8 witness: a mark-read request of one user has succeeded on a row of
\* that user while an unread row of another user is in the table
C8_Witness ==
    /\ req.handler \in ReadHandlers
    /\ req.status = 200
    /\ \E r \in notifications : r.user_id = req.actor /\ r.is_read
    /\ \E r \in notifications : r.user_id # req.actor /\ ~r.is_read

RowsOf(notifs, userId) == { r \in notifs : r.user_id = userId }

\* C12: the unread count of a user grows by one with every notification
\* inserted for the user, is 0 in the response of the user's mark-all-read,
\* is one less than before in the response of the user's single mark-read,
\* and the count request returns the number of the user's unread rows.
C12_BadgeCountFollowsReadState ==
    [][/\ req'.handler \notin ReadHandlers
          => \A u \in Users :
                UnreadCount(notifications', u) =
                   UnreadCount(notifications, u)
                      + Cardinality(RowsOf(notifications', u))
                      - Cardinality(RowsOf(notifications, u))
       /\ (req'.handler = "PATCH /api/notifications/mark-all-read"
              /\ req'.status = 200)
          => /\ req'.unread_count = 0
             /\ Cardinality({ r \in RowsOf(notifications', req'.actor) :
                                ~r.is_read }) = 0
       /\ (req'.handler = "PATCH /api/notifications/[id]/read"
              /\ req'.status = 200)
          => /\ req'.unread_count = UnreadCount(notifications, req'.actor) - 1
             /\ req'.unread_count =
                   Cardinality({ r \in RowsOf(notifications', req'.actor) :
                                   ~r.is_read })
       /\ (req'.handler = "GET /api/notifications/unread-count"
              /\ req'.status = 200)
          => req'.unread_count =
                Cardinality({ r \in RowsOf(notifications, req'.actor) :
                                ~r.is_read })]_vars

\* C12 witness: a user with two unread notifications has marked one of
\* them read and the response carries the count 1
C12_Witness ==
    /\ req.handler = "PATCH /api/notifications/[id]/read"
    /\ req.status = 200
    /\ req.unread_count = 1
    /\ Cardinality(RowsOf(notifications, req.actor)) = 2

\* C9: a like or a single-recipient notification request never writes a
\* notification row for the user who made it and never schedules a push
\* to that user.
C9_NoNotificationForOwnAction ==
    req.handler \in {"POST /api/notifications",
                     "POST /api/testimony-comments/[id]/like"}
       => req.actor \notin req.rowsFor

---------------------------------------------------------------------------
(* Claims about issued tokens *)

\* C15: the role placed in a bearer token, at login and at refresh, is the
\* role that follows from the resolved authorities of the user, and is
\* never taken from the column users.authority.
C15_RoleFromResolvedSetOnly ==
    joinOut.role # NoRole
       => /\ joinOut.role.from = "resolved"
          /\ joinOut.role.label = roleForJWT(Resolve(joinOut.user))

\* C16: a request whose bearer token is missing, invalid or expired is
\* answered 401 and changes no stored data.
C16_NoBearerNoMutation ==
    [][guardOut'.bearer.kind # "valid"
          => /\ guardOut'.status = 401
             /\ UNCHANGED <<fcm_token, view_count, academic_years>>]_vars

---------------------------------------------------------------------------
(* Claims about the token validity check *)

\* C20: the validity check accepts a token exactly when it is a non-empty
\* string of 100 to 300 characters, all of them letters, digits, hyphen,
\* underscore or colon, that is not a placeholder of the list; it rejects
\* the empty string, a 10-character string, a 250-character string with a
\* space in it and the text "null", and accepts a 150-character token of
\* letters, digits and hyphens.
C20_ValidExactlyWhenWellFormed ==
    tokenValidation.called =>
        LET input == tokenValidation.input
            runs == input.runs
            length == StringLength(runs)
            wellFormed ==
                /\ ~input.isNull
                /\ length >= 1
                /\ length >= 100 /\ length <= 300
                /\ \A i \in 1..Len(runs) :
                      runs[i].char \in {"a", "7", "-", "_", ":"}
                /\ toLowerCase(input.text) \notin invalidTokens
        IN /\ tokenValidation.isValid <=> wellFormed
           /\ runs = <<>> => ~tokenValidation.isValid
           /\ length = 10 => ~tokenValidation.isValid
           /\ (length = 250 /\ \E i \in 1..Len(runs) : runs[i].char = " ")
                 => ~tokenValidation.isValid
           /\ input.text = "null" => ~tokenValidation.isValid
           /\ runs \in { <<Run("a", 100), Run("-", 50)>>, <<Run("a", 150)>> }
                 => tokenValidation.isValid

\* a 150-character token of letters and hyphens was accepted
C20_Witness ==
    /\ tokenValidation.called
    /\ tokenValidation.input.runs = <<Run("a", 100), Run("-", 50)>>
    /\ tokenValidation.isValid

---------------------------------------------------------------------------
(* Claims about pooled connections and the refresh handler *)

\* C7: when a handler has completed, every connection it took from the
\* pool has been released, so that no connection is held between requests.
C7_EveryConnectionReleased ==
    /\ joinOut.released = joinOut.acquired
    /\ heldConnections = 0

---------------------------------------------------------------------------
(* Claims about the permission predicates *)

\* C25: a deactivated assignment grants no privilege: a user who is not
\* the author deletes a testimony only while holding an active assignment
\* of an administrative authority, exactly as a user who never held one.
C25_DeactivatedAssignmentGrantsNothing ==
    [][(/\ authOut'.handler = "DELETE /api/testimonies/[id]"
        /\ authOut'.status = 200
        /\ authOut'.caller # authOut'.target)
          => \E ua \in user_authorities :
                /\ ua.user_id = authOut'.caller
                /\ ua.is_active
                /\ AuthorityById(ua.authority_id).name \in AdminNames]_vars

\* C23: the assignments in user_authorities change only in a request whose
\* authenticated caller satisfies canManageUsers in the state the change
\* is made from; a caller without it adds or removes no authority, for
\* themselves or for anyone else.
C23_OnlyManagersChangeAssignments ==
    [][user_authorities' # user_authorities
          => /\ authOut'.caller \in Users
             /\ canManageUsers(Resolve(authOut'.caller))]_vars

MaxRequiredLevel == 7

\* levels a caller of canAccessByLevel may require, with the level 999 that
\* resolve reports for an empty set and the one above it
RequiredLevels == 0..MaxRequiredLevel \cup {999, 1000}

\* C22: canAccessByLevel holds exactly when highestAuthorityLevel is at
\* most the required level, and is monotonic: for every resolved authority
\* set and all levels x < y, access at x implies access at y.
C22_AccessByLevelMonotonic ==
    \A u \in Users, qDefault \in QueryOutcomes :
        LET r == getUserAuthorities(user_authorities, u, "ok", qDefault)
        IN \A x \in RequiredLevels :
              /\ canAccessByLevel(r, x) <=> r.highestAuthorityLevel <= x
              /\ \A y \in RequiredLevels :
                    (x < y /\ canAccessByLevel(r, x)) => canAccessByLevel(r, y)

\* a user resolved at level 5 is refused at level 4 and admitted at 5 and
\* above, while another user holds level 0
C22_Witness ==
    /\ \E u \in Users :
          /\ Resolve(u).highestAuthorityLevel = 5
          /\ ~canAccessByLevel(Resolve(u), 4)
          /\ canAccessByLevel(Resolve(u), 5)
          /\ canAccessByLevel(Resolve(u), 6)
    /\ \E v \in Users : Resolve(v).highestAuthorityLevel = 0

---------------------------------------------------------------------------
(* Claims about the use of a pooled connection *)

\* no statement of the trace follows a release in it
ReleaseIsLast(stmts) ==
    \A i \in 1..Len(stmts), j \in 1..Len(stmts) :
        (i < j /\ stmts[i].op = "release") => stmts[j].op = "release"

\* C24: in every run of a handler, all statements it issues on its pooled
\* connection precede the release of that connection.
C24_NoStatementAfterRelease ==
    /\ ReleaseIsLast(joinOut.stmts)
    /\ ReleaseIsLast(req.stmts)

---------------------------------------------------------------------------
(* Claims about requests that run at the same time *)

\* C26: a refresh token is redeemed at most once: a successful refresh
\* replaces the stored token, and of two refresh requests that present the
\* same token at most one is answered 200 with new tokens.
C26_RefreshTokenRedeemedOnce ==
    /\ \A p \in Requests :
          (procs[p].pc = "done" /\ procs[p].status = 200)
             => procs[p].issued # procs[p].refreshToken.n
    /\ \A p, q \in Requests :
          (/\ p # q
           /\ procs[p].pc = "done" /\ procs[p].status = 200
           /\ procs[q].pc = "done" /\ procs[q].status = 200)
             => procs[p].refreshToken # procs[q].refreshToken

\* C27: in every reachable state the team has at most one member with the
\* team-leader role, whatever the order and interleaving of member-add,
\* role-change and member-remove requests.
C27_AtMostOneTeamLeader ==
    Cardinality({ r \in user_team_roles : r.role = "leader" }) <= 1

\* C28: the like count stored with the notice equals the number of like rows
\* of the notice, after any sequence and interleaving of like toggles,
\* two toggles of one user at the same time included.
C28_LikeCountMatchesRows == like_count = Cardinality(notice_likes)

\* C29: an issued verification code verifies at most once: of the verify
\* requests answered ok: true no two found the same stored code, and none
\* found a code after a newer one had been stored for the address.
C29_CodeVerifiesAtMostOnce ==
    /\ \A p \in Requests :
          (procs[p].pc = "done" /\ procs[p].handler = "verify" /\ procs[p].ok)
             => ~procs[p].newer
    /\ \A p, q \in Requests :
          (/\ p # q
           /\ procs[p].pc = "done" /\ procs[p].handler = "verify" /\ procs[p].ok
           /\ procs[q].pc = "done" /\ procs[q].handler = "verify" /\ procs[q].ok)
             => procs[p].record.id # procs[q].record.id

---------------------------------------------------------------------------
(* Claims about the stored push token *)

\* C30: the push token stored for a user is set only by a request
\* authenticated as that user: a step of a token route that changes the
\* token of a user carries a bearer token of that user.
C30_PushTokenSetByOwnerOnly ==
    [][\A u \in Users :
          fcm_token'[u] # fcm_token[u] => verifyJwt(guardOut'.bearer) = u]_vars

====
